---- MODULE Spec2Model ----
(***************************************************************************)
(* Scatter engine of BlackBox Landscaper: region model, the four point     *)
(* distribution algorithms, the constraint evaluator, cross-layer          *)
(* exclusion and the ScatterSystem orchestrator.                           *)
(*                                                                         *)
(* Numbers.  World coordinates, distances and heights are integers (the    *)
(* reals of the program restricted to the unit lattice; a product or       *)
(* quotient is rounded down to the lattice).  The random source is the     *)
(* program's Mulberry32 generator computed bit-exactly on 32-bit words,    *)
(* held as two 16-bit limbs <<hi, lo>>; a draw u stands for u / 2^32.      *)
(* Strings (layer ids) are sequences of UTF-16 code units.                 *)
(***************************************************************************)
EXTENDS Integers, Sequences, FiniteSets, TLC

(***************************************************************************)
(* 32-bit words                                                            *)
(***************************************************************************)
W == 65536

\* XorTab[x + 1][y + 1] = x ^ y for 4-bit x and y
XorTab == <<<<0, 1, 2, 3, 4, 5, 6, 7, 8, 9, 10, 11, 12, 13, 14, 15>>,
            <<1, 0, 3, 2, 5, 4, 7, 6, 9, 8, 11, 10, 13, 12, 15, 14>>,
            <<2, 3, 0, 1, 6, 7, 4, 5, 10, 11, 8, 9, 14, 15, 12, 13>>,
            <<3, 2, 1, 0, 7, 6, 5, 4, 11, 10, 9, 8, 15, 14, 13, 12>>,
            <<4, 5, 6, 7, 0, 1, 2, 3, 12, 13, 14, 15, 8, 9, 10, 11>>,
            <<5, 4, 7, 6, 1, 0, 3, 2, 13, 12, 15, 14, 9, 8, 11, 10>>,
            <<6, 7, 4, 5, 2, 3, 0, 1, 14, 15, 12, 13, 10, 11, 8, 9>>,
            <<7, 6, 5, 4, 3, 2, 1, 0, 15, 14, 13, 12, 11, 10, 9, 8>>,
            <<8, 9, 10, 11, 12, 13, 14, 15, 0, 1, 2, 3, 4, 5, 6, 7>>,
            <<9, 8, 11, 10, 13, 12, 15, 14, 1, 0, 3, 2, 5, 4, 7, 6>>,
            <<10, 11, 8, 9, 14, 15, 12, 13, 2, 3, 0, 1, 6, 7, 4, 5>>,
            <<11, 10, 9, 8, 15, 14, 13, 12, 3, 2, 1, 0, 7, 6, 5, 4>>,
            <<12, 13, 14, 15, 8, 9, 10, 11, 4, 5, 6, 7, 0, 1, 2, 3>>,
            <<13, 12, 15, 14, 9, 8, 11, 10, 5, 4, 7, 6, 1, 0, 3, 2>>,
            <<14, 15, 12, 13, 10, 11, 8, 9, 6, 7, 4, 5, 2, 3, 0, 1>>,
            <<15, 14, 13, 12, 11, 10, 9, 8, 7, 6, 5, 4, 3, 2, 1, 0>>>>

Xor8(x, y) == (XorTab[(x \div 16) + 1][(y \div 16) + 1] * 16) + XorTab[(x % 16) + 1][(y % 16) + 1]

Xor16(x, y) == (Xor8(x \div 256, y \div 256) * 256) + Xor8(x % 256, y % 256)

\* a ^ b on 32-bit words
Xor32(a, b) == <<Xor16(a[1], b[1]), Xor16(a[2], b[2])>>

\* OrTab[x + 1][y + 1] = x | y for 4-bit x and y
OrTab == <<<<0, 1, 2, 3, 4, 5, 6, 7, 8, 9, 10, 11, 12, 13, 14, 15>>,
           <<1, 1, 3, 3, 5, 5, 7, 7, 9, 9, 11, 11, 13, 13, 15, 15>>,
           <<2, 3, 2, 3, 6, 7, 6, 7, 10, 11, 10, 11, 14, 15, 14, 15>>,
           <<3, 3, 3, 3, 7, 7, 7, 7, 11, 11, 11, 11, 15, 15, 15, 15>>,
           <<4, 5, 6, 7, 4, 5, 6, 7, 12, 13, 14, 15, 12, 13, 14, 15>>,
           <<5, 5, 7, 7, 5, 5, 7, 7, 13, 13, 15, 15, 13, 13, 15, 15>>,
           <<6, 7, 6, 7, 6, 7, 6, 7, 14, 15, 14, 15, 14, 15, 14, 15>>,
           <<7, 7, 7, 7, 7, 7, 7, 7, 15, 15, 15, 15, 15, 15, 15, 15>>,
           <<8, 9, 10, 11, 12, 13, 14, 15, 8, 9, 10, 11, 12, 13, 14, 15>>,
           <<9, 9, 11, 11, 13, 13, 15, 15, 9, 9, 11, 11, 13, 13, 15, 15>>,
           <<10, 11, 10, 11, 14, 15, 14, 15, 10, 11, 10, 11, 14, 15, 14, 15>>,
           <<11, 11, 11, 11, 15, 15, 15, 15, 11, 11, 11, 11, 15, 15, 15, 15>>,
           <<12, 13, 14, 15, 12, 13, 14, 15, 12, 13, 14, 15, 12, 13, 14, 15>>,
           <<13, 13, 15, 15, 13, 13, 15, 15, 13, 13, 15, 15, 13, 13, 15, 15>>,
           <<14, 15, 14, 15, 14, 15, 14, 15, 14, 15, 14, 15, 14, 15, 14, 15>>,
           <<15, 15, 15, 15, 15, 15, 15, 15, 15, 15, 15, 15, 15, 15, 15, 15>>>>

\* a | k on a 32-bit word, for a constant 0 <= k < 256
Or32(a, k) ==
    <<a[1], ((a[2] \div 256) * 256)
            + (OrTab[((a[2] \div 16) % 16) + 1][(k \div 16) + 1] * 16)
            + OrTab[(a[2] % 16) + 1][(k % 16) + 1]>>

\* (a + b) modulo 2^32
Add32(a, b) ==
    LET lo == a[2] + b[2]
    IN <<(a[1] + b[1] + (lo \div W)) % W, lo % W>>

\* a >>> k, 0 < k < 16
Shr32(a, k) ==
    LET p == 2 ^ k
        q == 2 ^ (16 - k)
    IN <<a[1] \div p, ((a[1] % p) * q) + (a[2] \div p)>>

\* the full 32-bit product of two 16-bit numbers
Mul16(x, y) ==
    LET p0 == x * (y % 256)
        p1 == x * (y \div 256)
        lo == (p0 % W) + (p1 % 256) * 256
    IN <<((p0 \div W) + (p1 \div 256) + (lo \div W)) % W, lo % W>>

\* Math.imul(a, b): the low 32 bits of the product
Imul32(a, b) ==
    LET ll == Mul16(a[2], b[2])
        hl == Mul16(a[1], b[2])[2]
        lh == Mul16(a[2], b[1])[2]
    IN <<(ll[1] + hl + lh) % W, ll[2]>>

\* ToInt32 / ToUint32 of an integer that fits a machine word pair
ToWord(n) == <<(n \div W) % W, n % W>>

\* the signed value of a word (x | 0)
ToInt32(a) == IF a[1] >= 32768 THEN ((a[1] - W) * W) + a[2] ELSE (a[1] * W) + a[2]

(***************************************************************************)
(* Mulberry32 (ScatterSystem.createRng)                                    *)
(***************************************************************************)
MulberryInc == <<27947, 31221>>     \* 0x6D2B79F5

\* the generator state after construction: t = seed | 0
createRng(seed) == ToWord(seed)

\* return ((v ^ (v >>> 14)) >>> 0) / 4294967296, as a 32-bit word
RngOut(v) == Xor32(v, Shr32(v, 14))

\* v ^= v + Math.imul(v ^ (v >>> 7), v | 61)
RngMix(v) == RngOut(Xor32(v, Add32(v, Imul32(Xor32(v, Shr32(v, 7)), Or32(v, 61)))))

\* v = Math.imul(t ^ (t >>> 15), t | 1), for the new state t
RngDraw(t) == <<t, RngMix(Imul32(Xor32(t, Shr32(t, 15)), Or32(t, 1)))>>

\* one call of the closure: <<the new state t, the draw as a 32-bit word>>
RngNext(t) == RngDraw(Add32(t, MulberryInc))

\* Math.floor(u / 2^32 * n) for a draw u and an integer 0 <= n < 2^15
RngMul(u, n) == ((u[1] * n) + ((u[2] * n) \div W)) \div W

\* the generator state after k further calls: each call adds 0x6D2B79F5 to t
RngSkip(t, k) == Add32(t, Imul32(MulberryInc, ToWord(k)))


(***************************************************************************)
(* Strings and identifiers                                                 *)
(***************************************************************************)
RECURSIVE hashFrom(_, _, _)
\* the loop of hashString from position i on
hashFrom(str, i, hash) ==
    IF i > Len(str) THEN hash
    ELSE hashFrom(str, i + 1,
             ToInt32(Add32(Imul32(ToWord(hash), <<0, 31>>), ToWord(str[i]))))

\* ScatterSystem.hashString: hash = ((hash << 5) - hash + charCode) | 0
hashString(str) == hashFrom(str, 1, 0)

\* Number.toString(16).padStart(8, '0') of a 32-bit word: eight hex digits
Hex4(n) == <<n \div 4096, (n \div 256) % 16, (n \div 16) % 16, n % 16>>

ToHex8(a) == Hex4(a[1]) \o Hex4(a[2])

\* Math.floor(u / 2^32 * 0xFFFFFFFF) = u - 1 for u > 0, and 0 for u = 0
FloorTimesMax(u) ==
    IF u = <<0, 0>> THEN u
    ELSE IF u[2] = 0 THEN <<u[1] - 1, W - 1>> ELSE <<u[1], u[2] - 1>>

\* the id made of the draw r
IdFromDraw(r) == <<r[1], ToHex8(FloorTimesMax(r[2]))>>

\* ScatterSystem.generateId: <<the new generator state, the id>>
generateId(t) == IdFromDraw(RngNext(t))

(***************************************************************************)
(* Arithmetic helpers                                                      *)
(***************************************************************************)
\* e, with v evaluated first
Eager(v, e) == IF v = v THEN e ELSE e

Max(a, b) == IF a >= b THEN a ELSE b
Min(a, b) == IF a <= b THEN a ELSE b
Abs(a) == IF a < 0 THEN 0 - a ELSE a

RECURSIVE SqrtSearch(_, _, _)
SqrtSearch(n, lo, hi) ==
    IF lo >= hi THEN lo
    ELSE LET mid == (lo + hi + 1) \div 2
         IN IF mid * mid <= n THEN SqrtSearch(n, mid, hi)
            ELSE SqrtSearch(n, lo, mid - 1)

\* Math.sqrt rounded down to the lattice
Isqrt(n) == SqrtSearch(n, 0, Min(n, 46340))

\* cos and sin of the angle 2*pi*k/16, times 1000
Cos16 == <<1000, 924, 707, 383, 0, -383, -707, -924,
           -1000, -924, -707, -383, 0, 383, 707, 924>>

Sin16 == <<0, 383, 707, 924, 1000, 924, 707, 383,
           0, -383, -707, -924, -1000, -924, -707, -383>>

\* the sector (1..16) of the angle rng() * 2 * pi for a draw u
Sector(u) == RngMul(u, 16) + 1

\* an optional field is present
Has(rec, field) == field \in DOMAIN rec

(***************************************************************************)
(* RegionHelper                                                            *)
(***************************************************************************)
RECURSIVE PolyBounds(_, _, _)
PolyBounds(pts, i, b) ==
    IF i > Len(pts) THEN b
    ELSE PolyBounds(pts, i + 1,
             [minX |-> Min(b.minX, pts[i].x), maxX |-> Max(b.maxX, pts[i].x),
              minZ |-> Min(b.minZ, pts[i].z), maxZ |-> Max(b.maxZ, pts[i].z)])

getRegionBounds(region) ==
    CASE region.type = "bounds" ->
           [minX |-> region.minX, maxX |-> region.maxX,
            minZ |-> region.minZ, maxZ |-> region.maxZ]
      [] region.type = "circle" ->
           [minX |-> region.centerX - region.radius,
            maxX |-> region.centerX + region.radius,
            minZ |-> region.centerZ - region.radius,
            maxZ |-> region.centerZ + region.radius]
      [] region.type = "polygon" ->
           PolyBounds(region.points, 2,
               [minX |-> region.points[1].x, maxX |-> region.points[1].x,
                minZ |-> region.points[1].z, maxZ |-> region.points[1].z])
      \* the switch has no default: any other type tag returns undefined
      [] OTHER -> [undefined |-> TRUE]

\* one edge test of the ray cast: the edge (i, j) straddles z and the
\* point is left of the crossing, x < (xj - xi) * (z - zi) / (zj - zi) + xi
EdgeCrossed(x, z, pi, pj) ==
    /\ (pi.z > z) # (pj.z > z)
    /\ IF pj.z - pi.z > 0
       THEN (x - pi.x) * (pj.z - pi.z) < (pj.x - pi.x) * (z - pi.z)
       ELSE (x - pi.x) * (pj.z - pi.z) > (pj.x - pi.x) * (z - pi.z)

RECURSIVE PolyScan(_, _, _, _, _)
PolyScan(x, z, polygon, i, inside) ==
    IF i > Len(polygon) THEN inside
    ELSE LET j == IF i = 1 THEN Len(polygon) ELSE i - 1
         IN PolyScan(x, z, polygon, i + 1,
                IF EdgeCrossed(x, z, polygon[i], polygon[j])
                THEN ~inside ELSE inside)

pointInPolygon(x, z, polygon) == PolyScan(x, z, polygon, 1, FALSE)

isPointInRegion(x, z, region) ==
    CASE region.type = "bounds" ->
           /\ x >= region.minX /\ x <= region.maxX
           /\ z >= region.minZ /\ z <= region.maxZ
      [] region.type = "circle" ->
           LET dx == x - region.centerX
               dz == z - region.centerZ
           IN dx * dx + dz * dz <= region.radius * region.radius
      [] region.type = "polygon" -> pointInPolygon(x, z, region.points)

RECURSIVE Shoelace(_, _)
Shoelace(pts, i) ==
    IF i > Len(pts) THEN 0
    ELSE LET j == IF i = 1 THEN Len(pts) ELSE i - 1
         IN (pts[j].x + pts[i].x) * (pts[j].z - pts[i].z) + Shoelace(pts, i + 1)

\* Math.PI as the fraction 355 / 113
getRegionArea(region) ==
    CASE region.type = "bounds" ->
           (region.maxX - region.minX) * (region.maxZ - region.minZ)
      [] region.type = "circle" -> (355 * region.radius * region.radius) \div 113
      [] region.type = "polygon" -> Abs(Shoelace(region.points, 1)) \div 2



(***************************************************************************)
(* poisson-disk-sampling (the package wrapped by poissonDisk): annulus     *)
(* rejection sampling over the rectangle [0, width) x [0, depth)           *)
(***************************************************************************)
Round1000(n) == (n + 500) \div 1000

DistSq(p, q) == (p[1] - q[1]) * (p[1] - q[1]) + (p[2] - q[2]) * (p[2] - q[2])

\* no accepted sample lies closer to p than minDistance
FarFromAll(p, samples, minDistance) ==
    \A i \in 1..Len(samples) : DistSq(p, samples[i]) >= minDistance * minDistance

InShape(p, o) == p[1] >= 0 /\ p[1] < o.width /\ p[2] >= 0 /\ p[2] < o.depth

RemoveAt(s, i) == SubSeq(s, 1, i - 1) \o SubSeq(s, i + 1, Len(s))

\* the point at distance dist from cur in sector k
PdsOffset(cur, k, dist) ==
    <<cur[1] + Round1000(Cos16[k] * dist), cur[2] + Round1000(Sin16[k] * dist)>>

\* the point of an attempt with draws ra (angle) and rd (distance in the
\* ring [minDistance, maxDistance))
PdsRingPoint(cur, o, ra, rd) ==
    PdsOffset(cur, Sector(ra[2]),
              o.minDistance + RngMul(rd[2], o.maxDistance - o.minDistance))

PdsAngleDrawn(cur, o, ra) == PdsRingPoint(cur, o, ra, RngNext(ra[1]))

\* the point of attempt j (1, 2, ...) around cur: two draws per attempt
PdsAttempt(cur, o, t, j) == PdsAngleDrawn(cur, o, RngNext(RngSkip(t, 2 * (j - 1))))

PdsAccepts(p, samples, o) == InShape(p, o) /\ FarFromAll(p, samples, o.minDistance)

\* attempt j with its point p: j is 0 when p is rejected
PdsJudge(p, samples, o, j) ==
    [j |-> IF PdsAccepts(p, samples, o) THEN j ELSE 0, p |-> p]

RECURSIVE PdsFirstAccepted(_, _, _, _, _, _)
RECURSIVE PdsOrLater(_, _, _, _, _, _, _)
\* the first accepted attempt among lo..hi with its point, or j = 0
PdsFirstAccepted(cur, samples, o, t, lo, hi) ==
    IF lo = hi THEN PdsJudge(PdsAttempt(cur, o, t, lo), samples, o, lo)
    ELSE PdsOrLater(PdsFirstAccepted(cur, samples, o, t, lo, (lo + hi) \div 2),
                    cur, samples, o, t, ((lo + hi) \div 2) + 1, hi)

PdsOrLater(first, cur, samples, o, t, lo, hi) ==
    IF first.j # 0 THEN first ELSE PdsFirstAccepted(cur, samples, o, t, lo, hi)

\* the outcome of the attempts around a sample: two draws were taken per attempt
PdsTried(res, o, t) ==
    IF res.j = 0
    THEN [found |-> FALSE, p |-> res.p, t |-> RngSkip(t, 2 * o.tries)]
    ELSE [found |-> TRUE, p |-> res.p, t |-> RngSkip(t, 2 * res.j)]

\* up to o.tries attempts to place a sample in the ring around cur
PdsTry(cur, samples, o, t) ==
    PdsTried(PdsFirstAccepted(cur, samples, o, t, 1, o.tries), o, t)

RECURSIVE PdsLoop(_, _, _, _)
RECURSIVE PdsAfterTry(_, _, _, _, _)
\* an accepted point joins the samples and the active list; a sample whose
\* attempts all failed leaves the active list
PdsAfterTry(samples, active, o, idx, res) ==
    IF res.found
    THEN PdsLoop(Append(samples, res.p), Append(active, Len(samples) + 1), o, res.t)
    ELSE PdsLoop(samples, RemoveAt(active, idx), o, res.t)

PdsAround(samples, active, o, idx, t) ==
    PdsAfterTry(samples, active, o, idx, PdsTry(samples[active[idx]], samples, o, t))

\* the active sample picked by the draw r
PdsPick(samples, active, o, r) ==
    PdsAround(samples, active, o, RngMul(r[2], Len(active)) + 1, r[1])

\* while the active list is not empty
PdsLoop(samples, active, o, t) ==
    IF active = <<>> THEN [pts |-> samples, t |-> t]
    ELSE PdsPick(samples, active, o, RngNext(t))

PdsFirstPoint(o, rx, rz) ==
    PdsLoop(<< <<RngMul(rx[2], o.width), RngMul(rz[2], o.depth)>> >>, <<1>>, o, rz[1])

PdsFirstX(o, rx) == PdsFirstPoint(o, rx, RngNext(rx[1]))

\* new PoissonDiskSampling(o, rng).fill()
PdsFill(o, t) == PdsFirstX(o, RngNext(t))

(***************************************************************************)
(* algorithms/poisson                                                      *)
(***************************************************************************)
PoissonTries == 30

RECURSIVE PoissonCollectHalved(_, _, _, _, _, _)
\* the loop with the samples scaled by a half before the translation
PoissonCollectHalved(raw, i, points, bounds, region, maxPoints) ==
    IF i > Len(raw) \/ Len(points) >= maxPoints THEN points
    ELSE PoissonCollectHalved(raw, i + 1,
             IF isPointInRegion((raw[i][1] \div 2) + bounds.minX,
                                (raw[i][2] \div 2) + bounds.minZ, region)
             THEN Append(points, <<(raw[i][1] \div 2) + bounds.minX,
                                   (raw[i][2] \div 2) + bounds.minZ>>)
             ELSE points,
             bounds, region, maxPoints)

RECURSIVE PoissonCollect(_, _, _, _, _, _)
\* the loop over the raw samples: translate to world space, keep the
\* samples inside the region, stop at maxPoints
PoissonCollect(raw, i, points, bounds, region, maxPoints) ==
    IF i > Len(raw) \/ Len(points) >= maxPoints THEN points
    ELSE PoissonCollect(raw, i + 1,
             IF isPointInRegion(raw[i][1] + bounds.minX, raw[i][2] + bounds.minZ, region)
             THEN Append(points, <<raw[i][1] + bounds.minX, raw[i][2] + bounds.minZ>>)
             ELSE points,
             bounds, region, maxPoints)

\* the options handed to the sampler
PoissonShape(bounds, minDistance) ==
    [width |-> bounds.maxX - bounds.minX,
     depth |-> bounds.maxZ - bounds.minZ,
     minDistance |-> minDistance,
     maxDistance |-> minDistance * 2,
     tries |-> PoissonTries]

\* the points kept of the raw samples
PoissonKept(raw, bounds, region, maxPoints) ==
    [pts |-> PoissonCollect(raw.pts, 1, <<>>, bounds, region, maxPoints), t |-> raw.t]

PoissonWithin(bounds, region, minDistance, maxPoints, t) ==
    PoissonKept(PdsFill(PoissonShape(bounds, minDistance), t), bounds, region, maxPoints)

poissonDisk(region, minDistance, maxPoints, t) ==
    PoissonWithin(getRegionBounds(region), region, minDistance, maxPoints, t)


(***************************************************************************)
(* algorithms/grid                                                         *)
(***************************************************************************)
\* an absent optional number (options.maxPoints ?? Infinity, seed ?? ...)
Undefined == -1

DefaultJitter == 200        \* 0.2, in thousandths

\* an offset of rng() * spacing * jitter, to one side only
JitterOffsetOneSided(u, spacing, jitter) == RngMul(u, spacing * jitter) \div 1000

\* (rng() - 0.5) * spacing * jitter for a draw u, jitter in thousandths
JitterOffset(u, spacing, jitter) ==
    ((2 * RngMul(u, spacing * jitter)) - (spacing * jitter)) \div 2000

RECURSIVE GridColumn(_, _, _, _, _, _, _, _)
RECURSIVE GridKeep(_, _, _, _, _, _, _, _, _, _)
\* if (isPointInRegion(jx, jz, region)) points.push([jx, jz]); z += spacing
GridKeep(x, z, points, bounds, region, spacing, jitter, jx, jz, t) ==
    IF isPointInRegion(jx, jz, region)
    THEN GridColumn(x, z + spacing, Append(points, <<jx, jz>>),
                    bounds, region, spacing, jitter, t)
    ELSE GridColumn(x, z + spacing, points, bounds, region, spacing, jitter, t)

\* jx and jz from the draws rx and rz
GridJitter(x, z, points, bounds, region, spacing, jitter, rx, rz) ==
    GridKeep(x, z, points, bounds, region, spacing, jitter,
             x + JitterOffset(rx[2], spacing, jitter),
             z + JitterOffset(rz[2], spacing, jitter), rz[1])

GridDrawn(x, z, points, bounds, region, spacing, jitter, rx) ==
    GridJitter(x, z, points, bounds, region, spacing, jitter, rx, RngNext(rx[1]))

\* the inner loop: for (z = ...; z <= bounds.maxZ; z += spacing)
GridColumn(x, z, points, bounds, region, spacing, jitter, t) ==
    IF z > bounds.maxZ THEN [pts |-> points, t |-> t]
    ELSE GridDrawn(x, z, points, bounds, region, spacing, jitter, RngNext(t))

RECURSIVE GridRows(_, _, _, _, _, _, _)
RECURSIVE GridNextRow(_, _, _, _, _, _)
\* x += spacing, after the column col
GridNextRow(x, bounds, region, spacing, jitter, col) ==
    Eager(col, GridRows(x + spacing, col.pts, bounds, region, spacing, jitter, col.t))

\* the outer loop: for (x = bounds.minX; x <= bounds.maxX; x += spacing)
GridRows(x, points, bounds, region, spacing, jitter, t) ==
    IF x > bounds.maxX THEN [pts |-> points, t |-> t]
    ELSE GridNextRow(x, bounds, region, spacing, jitter,
             GridColumn(x, bounds.minZ, points, bounds, region, spacing, jitter, t))

\* a swap that loses s[i]: both places hold s[j]
SwapCopy(s, i, j) == [s EXCEPT ![i] = s[j]]

Swap(s, i, j) == [s EXCEPT ![i] = s[j], ![j] = s[i]]

RECURSIVE Shuffle(_, _, _)
RECURSIVE ShuffleSwap(_, _, _)
\* j = Math.floor(rng() * (i + 1)); swap points[i] and points[j]
ShuffleSwap(points, i, r) ==
    Eager(r, Shuffle(Swap(points, i, RngMul(r[2], i) + 1), i - 1, r[1]))

\* Fisher-Yates: for (i = length - 1; i > 0; i--); i is the 1-based position
Shuffle(points, i, t) ==
    IF i <= 1 THEN [pts |-> points, t |-> t]
    ELSE ShuffleSwap(points, i, RngNext(t))

\* a spacing taken from the count alone, whatever the caller's spacing
GridSpacingFromCount(region, spacing, maxPoints) ==
    IF maxPoints # Undefined
    THEN Isqrt(getRegionArea(region) \div maxPoints)
    ELSE spacing

\* spacing = Math.max(spacing, Math.sqrt(area / maxPoints)) when maxPoints
\* is given; maxPoints >= 1
GridSpacing(region, spacing, maxPoints) ==
    IF maxPoints # Undefined
    THEN Max(spacing, Isqrt(getRegionArea(region) \div maxPoints))
    ELSE spacing

\* the jittered grid points inside the region
GridAll(bounds, region, spacing, jitter, t) ==
    GridRows(bounds.minX, <<>>, bounds, region, spacing, jitter, t)

\* points.length = maxPoints, after the shuffle sh
GridTruncate(sh, maxPoints) == [pts |-> SubSeq(sh.pts, 1, maxPoints), t |-> sh.t]

\* shuffle and cap to maxPoints
GridCap(all, maxPoints) ==
    IF maxPoints # Undefined /\ Len(all.pts) > maxPoints
    THEN GridTruncate(Shuffle(all.pts, Len(all.pts), all.t), maxPoints)
    ELSE all

\* grid without the shuffle and the cap
gridUncapped(region, spacing0, maxPoints, jitter, t) ==
    GridAll(getRegionBounds(region), region,
            GridSpacing(region, spacing0, maxPoints), jitter, t)

\* bounds.minX, read to start the outer loop, throws when bounds is undefined
grid(region, spacing0, maxPoints, jitter, t) ==
    IF ~Has(getRegionBounds(region), "minX") THEN [threw |-> "TypeError"]
    ELSE GridCap(GridAll(getRegionBounds(region), region,
                         GridSpacing(region, spacing0, maxPoints), jitter, t),
                 maxPoints)

(***************************************************************************)
(* algorithms/clustered                                                    *)
(***************************************************************************)
ODD_CLUSTER_SIZES == <<3, 5, 7, 9, 11, 13, 17, 21>>

MaxCenterAttempts == 100

\* sqrt(-2 ln u) times 1000, u taken at the middle of its sixteenth
GaussRadius == <<2633, 2176, 1927, 1743, 1593, 1461, 1342, 1231,
                 1125, 1021, 918, 813, 703, 583, 444, 252>>

RECURSIVE DrawNonZero(_)
RECURSIVE DrawAgain(_)
DrawAgain(r) == IF r[2] = <<0, 0>> THEN DrawNonZero(r[1]) ELSE r

\* while (u === 0) u = rng()
DrawNonZero(t) == DrawAgain(RngNext(t))

\* Math.abs(Math.sqrt(-2 ln u) * Math.cos(2 pi v)), times 1000
GaussValue(ru, rv) ==
    <<rv[1], Abs(GaussRadius[RngMul(ru[2], 16) + 1] * Cos16[Sector(rv[2])]) \div 1000>>

GaussSecond(ru) == GaussValue(ru, DrawNonZero(ru[1]))

\* Math.abs(gaussianRandom(rng)), times 1000: <<new state, value>>
gaussianRandomAbs(t) == GaussSecond(DrawNonZero(t))

\* cx and cz from the draws rx and rz
CenterPoint(bounds, rx, rz) ==
    <<bounds.minX + RngMul(rx[2], bounds.maxX - bounds.minX),
      bounds.minZ + RngMul(rz[2], bounds.maxZ - bounds.minZ)>>

CenterDrawn(bounds, rx) == CenterPoint(bounds, rx, RngNext(rx[1]))

\* the center drawn by attempt j (1, 2, ...) of the do-while loop
CenterAttempt(bounds, t, j) == CenterDrawn(bounds, RngNext(RngSkip(t, 2 * (j - 1))))

\* attempt j with its center c: j is 0 when c is outside the region
CenterJudge(c, region, j) ==
    [j |-> IF isPointInRegion(c[1], c[2], region) THEN j ELSE 0, c |-> c]

RECURSIVE CenterFirstInside(_, _, _, _, _)
RECURSIVE CenterOrLater(_, _, _, _, _, _)
\* the first attempt among lo..hi whose center is inside the region, with
\* its center; j = 0 with the center of attempt hi when there is none
CenterFirstInside(bounds, region, t, lo, hi) ==
    IF lo = hi THEN CenterJudge(CenterAttempt(bounds, t, lo), region, lo)
    ELSE CenterOrLater(CenterFirstInside(bounds, region, t, lo, (lo + hi) \div 2),
                       bounds, region, t, ((lo + hi) \div 2) + 1, hi)

CenterOrLater(first, bounds, region, t, lo, hi) ==
    IF first.j # 0 THEN first ELSE CenterFirstInside(bounds, region, t, lo, hi)

\* the loop ended at attempt f.j, or at the last one if f.j = 0
CenterFound(f, t) ==
    [cx |-> f.c[1], cz |-> f.c[2],
     attempts |-> IF f.j = 0 THEN MaxCenterAttempts ELSE f.j,
     t |-> RngSkip(t, 2 * (IF f.j = 0 THEN MaxCenterAttempts ELSE f.j))]

\* do { draw cx, cz; attempts++ } while (!isPointInRegion && attempts < 100)
ClusterCenter(bounds, region, t) ==
    CenterFound(CenterFirstInside(bounds, region, t, 1, MaxCenterAttempts), t)

RECURSIVE ClusterMembers(_, _, _, _, _, _, _, _)
RECURSIVE MemberKeepAll(_, _, _, _, _, _, _, _, _, _)
RECURSIVE MemberKeep(_, _, _, _, _, _, _, _, _, _)
\* the member test without isPointInRegion
MemberKeepAll(i, clusterSize, c, radius, region, points, remaining, px, pz, t) ==
    ClusterMembers(i + 1, clusterSize, c, radius, region,
                   Append(points, <<px, pz>>), remaining - 1, t)

\* if (isPointInRegion(px, pz, region)) { points.push([px, pz]); remaining-- }
MemberKeep(i, clusterSize, c, radius, region, points, remaining, px, pz, t) ==
    IF isPointInRegion(px, pz, region)
    THEN ClusterMembers(i + 1, clusterSize, c, radius, region,
                        Append(points, <<px, pz>>), remaining - 1, t)
    ELSE ClusterMembers(i + 1, clusterSize, c, radius, region, points, remaining, t)

\* px and pz at distance dist (in thousandths) by the angle draw ra
MemberPoint(i, clusterSize, c, radius, region, points, remaining, dist, ra) ==
    MemberKeep(i, clusterSize, c, radius, region, points, remaining,
               c.cx + Round1000((Cos16[Sector(ra[2])] * dist) \div 1000),
               c.cz + Round1000((Sin16[Sector(ra[2])] * dist) \div 1000), ra[1])

\* dist = Math.abs(gaussianRandom(rng)) * clusterRadius; angle = rng() * 2 PI
MemberDist(i, clusterSize, c, radius, region, points, remaining, g) ==
    MemberPoint(i, clusterSize, c, radius, region, points, remaining,
                (g[2] * radius) \div 1000, RngNext(g[1]))

\* for (i = 0; i < clusterSize; i++): members around the center
ClusterMembers(i, clusterSize, c, radius, region, points, remaining, t) ==
    IF i >= clusterSize THEN [pts |-> points, remaining |-> remaining, t |-> t]
    ELSE MemberDist(i, clusterSize, c, radius, region, points, remaining,
                    gaussianRandomAbs(t))

RECURSIVE ClusterLoop(_, _, _, _, _, _, _, _)
RECURSIVE ClusterPlaced(_, _, _, _, _, _)
\* c++, after the members m of a cluster
ClusterPlaced(c, clusterCount, baseRadius, bounds, region, m) ==
    ClusterLoop(c + 1, clusterCount, baseRadius, bounds, region,
                m.pts, m.remaining, m.t)

\* clusterRadius = baseClusterRadius * (0.5 + rng() * 1.0), by the draw rr
ClusterRadius(c, clusterCount, baseRadius, bounds, region, points, remaining, ctr, size, rr) ==
    ClusterPlaced(c, clusterCount, baseRadius, bounds, region,
        ClusterMembers(0, size, ctr,
                       (baseRadius * (500 + RngMul(rr[2], 1000))) \div 1000,
                       region, points, remaining, rr[1]))

\* clusterSize = Math.min(remaining, ODD_CLUSTER_SIZES[...]), by the draw rs
ClusterSize(c, clusterCount, baseRadius, bounds, region, points, remaining, ctr, rs) ==
    ClusterRadius(c, clusterCount, baseRadius, bounds, region, points, remaining, ctr,
        Min(remaining, ODD_CLUSTER_SIZES[RngMul(rs[2], Len(ODD_CLUSTER_SIZES)) + 1]),
        RngNext(rs[1]))

\* if (attempts >= 100) continue
ClusterAt(c, clusterCount, baseRadius, bounds, region, points, remaining, ctr) ==
    IF ctr.attempts >= MaxCenterAttempts
    THEN ClusterLoop(c + 1, clusterCount, baseRadius, bounds, region,
                     points, remaining, ctr.t)
    ELSE ClusterSize(c, clusterCount, baseRadius, bounds, region, points, remaining,
                     ctr, RngNext(ctr.t))

\* for (c = 0; c < clusterCount && remaining > 0; c++)
ClusterLoop(c, clusterCount, baseRadius, bounds, region, points, remaining, t) ==
    IF c >= clusterCount \/ remaining <= 0 THEN [pts |-> points, t |-> t]
    ELSE ClusterAt(c, clusterCount, baseRadius, bounds, region, points, remaining,
                   ClusterCenter(bounds, region, t))

\* Math.max(20, Math.min(80, Math.floor(totalCount / 15)))
ClusterCount(totalCount) == Max(20, Min(80, totalCount \div 15))

\* Math.sqrt(area / clusterCount) * 0.5, in thousandths of a world unit
ClusterBaseRadius(area, clusterCount) ==
    (Isqrt((area * 10000) \div clusterCount) * 10) \div 2

\* bounds.minX, read by the first center attempt, throws when bounds is
\* undefined
clustered(region, totalCount, t) ==
    IF totalCount > 0 /\ ~Has(getRegionBounds(region), "minX")
    THEN [threw |-> "TypeError"]
    ELSE ClusterLoop(0, ClusterCount(totalCount),
                     ClusterBaseRadius(getRegionArea(region), ClusterCount(totalCount)),
                     getRegionBounds(region), region, <<>>, totalCount, t)


(***************************************************************************)
(* algorithms/density                                                      *)
(***************************************************************************)
DefaultMinDistance == 3


\* constraints.find(c => c.type === 'density_falloff'): its index, or 0
RECURSIVE FindFalloff(_, _)
FindFalloff(constraints, i) ==
    IF i > Len(constraints) THEN 0
    ELSE IF constraints[i].type = "density_falloff" THEN i
    ELSE FindFalloff(constraints, i + 1)

\* a thinning step that accepts every candidate
FalloffAcceptsAll(u, x, z, f) == TRUE

\* rng() < Math.max(0, 1 - dist / falloffRadius), the draw taken in hundredths
FalloffAccepts(u, x, z, f) ==
    ((x - f.falloffCenter[1]) * (x - f.falloffCenter[1])
        + (z - f.falloffCenter[2]) * (z - f.falloffCenter[2])) * 10000
    < (f.falloffRadius * (100 - RngMul(u, 100)))
        * (f.falloffRadius * (100 - RngMul(u, 100)))

RECURSIVE DensityLoop(_, _, _, _, _, _)
RECURSIVE DensityRoll(_, _, _, _, _, _)
\* if (rng() < density) points.push([x, z]), by the draw r
DensityRoll(candidates, i, points, targetCount, falloff, r) ==
    DensityLoop(candidates, i + 1,
        IF FalloffAccepts(r[2], candidates[i][1], candidates[i][2], falloff[1])
        THEN Append(points, candidates[i]) ELSE points,
        targetCount, falloff, r[1])

\* for (const [x, z] of candidates)
DensityLoop(candidates, i, points, targetCount, falloff, t) ==
    IF i > Len(candidates) \/ Len(points) >= targetCount
    THEN [pts |-> points, t |-> t]
    ELSE IF /\ falloff # <<>>
            /\ Has(falloff[1], "falloffCenter")
            /\ Has(falloff[1], "falloffRadius")
            /\ falloff[1].falloffRadius # 0
         THEN DensityRoll(candidates, i, points, targetCount, falloff, RngNext(t))
         ELSE DensityLoop(candidates, i + 1, Append(points, candidates[i]),
                          targetCount, falloff, t)

\* the loop over the oversampled candidates cand
DensityOf(cand, targetCount, falloff) ==
    DensityLoop(cand.pts, 1, <<>>, targetCount, falloff, cand.t)

densityFunction(region, targetCount, minDistance, constraints, t) ==
    DensityOf(poissonDisk(region,
                  IF minDistance = Undefined THEN DefaultMinDistance ELSE minDistance,
                  targetCount * 3, t),
              targetCount,
              IF FindFalloff(constraints, 1) = 0 THEN <<>>
              ELSE <<constraints[FindFalloff(constraints, 1)]>>)

(***************************************************************************)
(* TerrainSampler                                                          *)
(***************************************************************************)
\* Math.max(0, Math.min(this.resolution - 2, Math.floor(g))) for the local
\* coordinate g * cellSize
CellIndex(tr, local) ==
    Max(0, Min(tr.resolution - 2, local \div (tr.regionSize \div tr.resolution)))

\* the zero-based indices of data read for h00, h10, h01, h11
CornerIndices(tr, x, z) ==
    <<(CellIndex(tr, z - tr.offsetZ) * tr.resolution) + CellIndex(tr, x - tr.offsetX),
      (CellIndex(tr, z - tr.offsetZ) * tr.resolution) + CellIndex(tr, x - tr.offsetX) + 1,
      ((CellIndex(tr, z - tr.offsetZ) + 1) * tr.resolution) + CellIndex(tr, x - tr.offsetX),
      ((CellIndex(tr, z - tr.offsetZ) + 1) * tr.resolution)
          + CellIndex(tr, x - tr.offsetX) + 1>>

\* a fractional part taken from the unclamped cell
FractionOfOwnCell(local, c0, cellSize) == local % cellSize

\* fx = gx - x0, in units of 1 / cellSize
Fraction(local, c0, cellSize) == local - (c0 * cellSize)

\* HeightmapTerrainSampler.getHeight: bilinear interpolation, computed over
\* the common denominator cellSize * cellSize and rounded down
HeightmapHeight(tr, x, z) ==
    LET cellSize == tr.regionSize \div tr.resolution
        localX == x - tr.offsetX
        localZ == z - tr.offsetZ
        fx == Fraction(localX, CellIndex(tr, localX), cellSize)
        fz == Fraction(localZ, CellIndex(tr, localZ), cellSize)
        at == CornerIndices(tr, x, z)
        h00 == tr.data[at[1] + 1]
        h10 == tr.data[at[2] + 1]
        h01 == tr.data[at[3] + 1]
        h11 == tr.data[at[4] + 1]
        h0 == (h00 * cellSize) + ((h10 - h00) * fx)
        h1 == (h01 * cellSize) + ((h11 - h01) * fx)
    IN ((h0 * cellSize) + ((h1 - h0) * fz)) \div (cellSize * cellSize)

getHeight(tr, x, z) ==
    IF tr.kind = "flat" THEN tr.height ELSE HeightmapHeight(tr, x, z)

\* Math.atan(Math.sqrt(g2)) in whole degrees, for g2 = dx * dx + dz * dz
AtanDegrees == <<0, 45, 54, 60, 63, 65, 67, 69, 70, 71, 72, 73, 73, 74, 75, 75, 75>>

slopeFromSamples(tr, x, z) ==
    LET h0 == getHeight(tr, x, z)
        dx == getHeight(tr, x + 1, z) - h0
        dz == getHeight(tr, x, z + 1) - h0
        g2 == (dx * dx) + (dz * dz)
    IN IF g2 < Len(AtanDegrees) THEN AtanDegrees[g2 + 1] ELSE 80

getSlope(tr, x, z) ==
    IF tr.kind = "flat" THEN 0 ELSE slopeFromSamples(tr, x, z)

(***************************************************************************)
(* constraints                                                             *)
(***************************************************************************)
DefaultMaxDegrees == 45

\* an exclusion test that lets the boundary of the disk pass
OutsideDiskOrOnIt(x, z, c) ==
    ((x - c.center[1]) * (x - c.center[1]))
        + ((z - c.center[2]) * (z - c.center[2])) >= c.radius * c.radius

\* an exclusion test that lets every point pass
OutsideDiskAlways(x, z, c) == TRUE

\* dx * dx + dz * dz > constraint.radius * constraint.radius
OutsideDisk(x, z, c) ==
    ((x - c.center[1]) * (x - c.center[1]))
        + ((z - c.center[2]) * (z - c.center[2])) > c.radius * c.radius

\* the switch has no default: for any other type tag the function returns
\* undefined, which its only caller negates, as it would false
checkSingleConstraint(x, z, c, tr) ==
    CASE c.type = "slope" ->
           getSlope(tr, x, z) <=
               (IF Has(c, "maxDegrees") THEN c.maxDegrees ELSE DefaultMaxDegrees)
      [] c.type = "exclusion" ->
           IF ~Has(c, "center") \/ ~Has(c, "radius") THEN TRUE
           ELSE OutsideDisk(x, z, c)
      [] c.type = "height" ->
           LET height == getHeight(tr, x, z)
           IN /\ (Has(c, "minHeight") => height >= c.minHeight)
              /\ (Has(c, "maxHeight") => height <= c.maxHeight)
      [] c.type = "density_falloff" -> TRUE
      [] OTHER -> FALSE

RECURSIVE checkFrom(_, _, _, _, _)
\* for (const constraint of constraints)
\*     if (!checkSingleConstraint(...)) return false
\* return true
checkFrom(x, z, constraints, i, tr) ==
    IF i > Len(constraints) THEN TRUE
    ELSE IF ~checkSingleConstraint(x, z, constraints[i], tr) THEN FALSE
    ELSE checkFrom(x, z, constraints, i + 1, tr)

\* a check that looks at the first constraint only
checkConstraintsFirstOnly(x, z, constraints, tr) ==
    Len(constraints) = 0 \/ checkSingleConstraint(x, z, constraints[1], tr)

checkConstraints(x, z, constraints, tr) == checkFrom(x, z, constraints, 1, tr)

\* a filter that keeps every point
applyConstraintsNone(points, constraints, tr) == points

applyConstraints(points, constraints, tr) ==
    IF Len(constraints) = 0 THEN points
    ELSE LET Passes(p) == checkConstraints(p[1], p[2], constraints, tr)
         IN SelectSeq(points, Passes)


(***************************************************************************)
(* ScatterSystem                                                           *)
(***************************************************************************)
DefaultScaleMin == 800      \* 0.8, in thousandths
DefaultScaleMax == 1200     \* 1.2, in thousandths
TwoPiMilli == 6283          \* Math.PI * 2, in thousandths of a radian

generatePoints(algorithm, region, count, minDistance, constraints, t) ==
    CASE algorithm = "poisson" -> poissonDisk(region, minDistance, count, t)
      [] algorithm = "clustered" -> clustered(region, count, t)
      [] algorithm = "density" ->
           densityFunction(region, count, minDistance, constraints, t)
      [] algorithm = "grid" -> grid(region, minDistance, count, DefaultJitter, t)

RECURSIVE SumWeights(_, _)
SumWeights(types, i) ==
    IF i > Len(types) THEN 0 ELSE types[i].weight + SumWeights(types, i + 1)

\* rng() * totalWeight <= c for a draw u, exactly: u * totalWeight <= c * 2^32
RollLeq(u, totalWeight, c) ==
    \/ (u[1] * totalWeight) + ((u[2] * totalWeight) \div W) < c * W
    \/ /\ (u[1] * totalWeight) + ((u[2] * totalWeight) \div W) = c * W
       /\ (u[2] * totalWeight) % W = 0

\* a selection that always falls through to the last entry
PickTypeLast(types, i, u, totalWeight, acc) == types[Len(types)]

RECURSIVE PickType(_, _, _, _, _)
\* the loop of selectInstanceType: roll -= weight; if (roll <= 0) return type
PickType(types, i, u, totalWeight, acc) ==
    IF i > Len(types) THEN types[Len(types)]
    ELSE IF RollLeq(u, totalWeight, acc + types[i].weight) THEN types[i]
    ELSE PickType(types, i + 1, u, totalWeight, acc + types[i].weight)

\* the type selected by the draw r
SelectRolled(types, r) == <<r[1], PickType(types, 1, r[2], SumWeights(types, 1), 0)>>

\* <<the new generator state, the selected type>>
selectInstanceType(types, t) ==
    IF Len(types) = 1 THEN <<t, types[1]>> ELSE SelectRolled(types, RngNext(t))

\* the instance with the id drawn: <<new generator state, instance>>
BuildIdentified(p, y, type, scale, rotY, id) ==
    <<id[1],
      [id |-> id[2],
       speciesId |-> IF Has(type, "speciesId") THEN type.speciesId
                     ELSE IF Has(type, "generator") THEN type.generator
                     ELSE "unknown",
       position |-> [x |-> p[1],
                     y |-> y + (IF Has(type, "yOffset") THEN type.yOffset ELSE 0),
                     z |-> p[2]],
       rotation |-> [x |-> 0, y |-> rotY, z |-> 0],
       scale |-> [x |-> scale, y |-> scale, z |-> scale]]>>

\* rotY = rotationRandomY !== false ? rng() * Math.PI * 2 : 0, by the draw rr
BuildRotated(p, y, type, scale, rr) ==
    BuildIdentified(p, y, type, scale,
                    IF ~Has(type, "rotationRandomY") \/ type.rotationRandomY # FALSE
                    THEN RngMul(rr[2], TwoPiMilli) ELSE 0,
                    generateId(rr[1]))

\* scale = scaleMin + rng() * (scaleMax - scaleMin), by the draw rs; the
\* rotation draws only if type.rotationRandomY !== false
BuildScaled(p, y, type, rs) ==
    BuildRotated(p, y, type,
        (IF Has(type, "scaleMin") THEN type.scaleMin ELSE DefaultScaleMin)
        + RngMul(rs[2],
                 (IF Has(type, "scaleMax") THEN type.scaleMax ELSE DefaultScaleMax)
                 - (IF Has(type, "scaleMin") THEN type.scaleMin ELSE DefaultScaleMin)),
        IF ~Has(type, "rotationRandomY") \/ type.rotationRandomY # FALSE
        THEN RngNext(rs[1]) ELSE <<rs[1], <<0, 0>>>>)

\* the instance of the selected type sel
BuildTyped(p, y, sel) == BuildScaled(p, y, sel[2], RngNext(sel[1]))

\* one element of the map over the points: <<new generator state, instance>>
buildInstance(p, layer, tr, t) ==
    BuildTyped(p, getHeight(tr, p[1], p[2]), selectInstanceType(layer.instanceTypes, t))

RECURSIVE buildFrom(_, _, _, _, _, _)
RECURSIVE BuildAppend(_, _, _, _, _, _)
\* the instance b joins the list
BuildAppend(points, i, layer, tr, acc, b) ==
    Eager(b, buildFrom(points, i + 1, layer, tr, Append(acc, b[2]), b[1]))

buildFrom(points, i, layer, tr, acc, t) ==
    IF i > Len(points) THEN [instances |-> acc, t |-> t]
    ELSE BuildAppend(points, i, layer, tr, acc, buildInstance(points[i], layer, tr, t))

buildInstances(points, layer, tr, t) == buildFrom(points, 1, layer, tr, <<>>, t)

\* a Map: get, set and the empty map
EmptyMap == [k \in {} |-> <<>>]

\* a set that drops the other entries
MapSetOverwrite(m, k, v) == [x \in {k} |-> v]

MapSet(m, k, v) == [x \in (DOMAIN m) \cup {k} |-> IF x = k THEN v ELSE m[x]]

RECURSIVE CollectExclusion(_, _, _)
\* the points of the named layers that have placed points, in name order
CollectExclusion(excludedLayerIds, i, placed) ==
    IF i > Len(excludedLayerIds) THEN <<>>
    ELSE (IF excludedLayerIds[i] \in DOMAIN placed
          THEN placed[excludedLayerIds[i]] ELSE <<>>)
         \o CollectExclusion(excludedLayerIds, i + 1, placed)

\* the key of the spatial-hash cell of a point
CellKey(p, cellSize) == <<p[1] \div cellSize, p[2] \div cellSize>>

\* the spatial hash: cell key -> the exclusion points of that cell
SpatialHash(exclusionPoints, cellSize) ==
    [k \in {CellKey(exclusionPoints[i], cellSize) : i \in 1..Len(exclusionPoints)} |->
        LET InCell(q) == CellKey(q, cellSize) = k
        IN SelectSeq(exclusionPoints, InCell)]

\* a filter callback that looks into the candidate's own cell only
KeepsCandidateOwnCell(c, hash, cellSize, minDistSq) ==
    CellKey(c, cellSize) \in DOMAIN hash =>
        \A i \in 1..Len(hash[CellKey(c, cellSize)]) :
            DistSq(c, hash[CellKey(c, cellSize)][i]) >= minDistSq

\* the filter callback: no point of the 3x3 neighbourhood is closer than minDistance
KeepsCandidate(c, hash, cellSize, minDistSq) ==
    LET g == CellKey(c, cellSize)
    IN \A dx \in -1..1 : \A dz \in -1..1 :
          LET key == <<g[1] + dx, g[2] + dz>>
          IN key \in DOMAIN hash =>
                \A i \in 1..Len(hash[key]) : DistSq(c, hash[key][i]) >= minDistSq

\* the candidates far enough from every exclusion point
ExclusionFilter(candidates, exclusionPoints, minDistance) ==
    IF Len(exclusionPoints) = 0 \/ minDistance = 0 THEN candidates
    ELSE LET Keep(c) == KeepsCandidate(c, SpatialHash(exclusionPoints, minDistance),
                                       minDistance, minDistance * minDistance)
         IN SelectSeq(candidates, Keep)

\* an exclusion step that keeps every candidate
applyCrossLayerExclusionNone(candidates, excludedLayerIds, placed, minDistance) ==
    candidates

applyCrossLayerExclusion(candidates, excludedLayerIds, placed, minDistance) ==
    ExclusionFilter(candidates, CollectExclusion(excludedLayerIds, 1, placed), minDistance)

RECURSIVE InsertBeforeEqual(_, _)
\* the place of layer before the entries of equal priority
InsertBeforeEqual(sortedLayers, layer) ==
    IF sortedLayers = <<>> THEN <<layer>>
    ELSE IF Head(sortedLayers).priority > layer.priority
         THEN <<Head(sortedLayers)>> \o InsertBeforeEqual(Tail(sortedLayers), layer)
         ELSE <<layer>> \o sortedLayers

RECURSIVE InsertByPriority(_, _)
\* the place of layer in a list kept in non-increasing priority order,
\* after the entries of equal priority (Array.prototype.sort is stable)
InsertByPriority(sortedLayers, layer) ==
    IF sortedLayers = <<>> THEN <<layer>>
    ELSE IF Head(sortedLayers).priority >= layer.priority
         THEN <<Head(sortedLayers)>> \o InsertByPriority(Tail(sortedLayers), layer)
         ELSE <<layer>> \o sortedLayers

RECURSIVE SortFrom(_, _, _)
SortFrom(ls, i, acc) ==
    IF i > Len(ls) THEN acc
    ELSE SortFrom(ls, i + 1, InsertByPriority(acc, ls[i]))

\* [...layers].sort((a, b) => b.priority - a.priority)
SortByPriority(ls) == SortFrom(ls, 1, <<>>)

\* the seed a call works with: options.seed ?? Math.floor(Math.random() * 100000)
BaseSeed(optSeed, random) == IF optSeed = Undefined THEN random ELSE optSeed

\* the result and its manifest, with the manifest id drawn
ResultRecord(layer, reg, candidates, filtered, instances, mid, clock) ==
    [candidates |-> candidates,
     filtered |-> filtered,
     result |-> [instances |-> instances,
                 manifest |-> [id |-> mid[2],
                               layerId |-> layer.id,
                               instances |-> instances,
                               algorithm |-> layer.algorithm,
                               region |-> reg,
                               createdAt |-> clock]]]

\* the manifest for the instances built
ResultBuilt(layer, reg, candidates, filtered, built, clock) ==
    Eager(built, ResultRecord(layer, reg, candidates, filtered, built.instances,
                              generateId(built.t), clock))

\* steps 3 to 7 of scatter and 4 to 7 of the loop of scatterLayers, for the
\* candidates cand of the layer and the points of them that passed
\* applyConstraints: buildInstances, the manifest
buildResult(layer, tr, reg, cand, filtered, clock) ==
    Eager(filtered, ResultBuilt(layer, reg, cand.pts, filtered,
                                buildInstances(filtered, layer, tr, cand.t), clock))

\* scatter after generatePoints
ScatterFrom(layer, tr, reg, cand, clock) ==
    Eager(cand, buildResult(layer, tr, reg, cand,
                            applyConstraints(cand.pts, layer.constraints, tr), clock))

\* scatter with a generator that also takes the time of the call
scatterBodyClockSeeded(layer, tr, reg, t0, clock) ==
    ScatterFrom(layer, tr, reg,
                generatePoints(layer.algorithm, reg, layer.count, layer.minDistance,
                               layer.constraints, Add32(t0, ToWord(clock))),
                clock)

\* the body of scatter: the candidates, the filtered points and the result
scatterBody(layer, tr, reg, t0, clock) ==
    ScatterFrom(layer, tr, reg,
                generatePoints(layer.algorithm, reg, layer.count, layer.minDistance,
                               layer.constraints, t0),
                clock)

\* the points of cand that step 2 of the loop of scatterLayers leaves
excludePlaced(layer, cand, placed) ==
    IF Has(layer, "excludesLayers") /\ Len(layer.excludesLayers) > 0
    THEN applyCrossLayerExclusion(cand.pts, layer.excludesLayers, placed,
                                  layer.minDistance)
    ELSE cand.pts

\* the iteration after generatePoints
LayerFrom(layer, tr, reg, cand, placed, clock) ==
    Eager(cand, buildResult(layer, tr, reg, cand,
                            applyConstraints(excludePlaced(layer, cand, placed),
                                             layer.constraints, tr),
                            clock))

\* an iteration whose generator also takes the time of the call
layerBodyClockSeeded(layer, tr, reg, t0, placed, clock) ==
    LayerFrom(layer, tr, reg,
              generatePoints(layer.algorithm, reg, layer.count, layer.minDistance,
                             layer.constraints, Add32(t0, ToWord(clock))),
              placed, clock)

\* one iteration of the loop of scatterLayers
layerBody(layer, tr, reg, t0, placed, clock) ==
    LayerFrom(layer, tr, reg,
              generatePoints(layer.algorithm, reg, layer.count, layer.minDistance,
                             layer.constraints, t0),
              placed, clock)

(***************************************************************************)
(* Inputs: regions, terrains, layers, seeds                                *)
(***************************************************************************)
BoxRegion == [type |-> "bounds", minX |-> -6, maxX |-> 6, minZ |-> -6, maxZ |-> 6]

CircleRegion == [type |-> "circle", centerX |-> 0, centerZ |-> 0, radius |-> 6]

\* a concave pentagon: the square with a notch cut down to the origin
PolygonRegion ==
    [type |-> "polygon",
     points |-> <<[x |-> -6, z |-> -6], [x |-> 6, z |-> -6], [x |-> 6, z |-> 6],
                  [x |-> 0, z |-> 0], [x |-> -6, z |-> 6]>>]

FlatTerrain == [kind |-> "flat", height |-> 3]

HeightmapTerrain ==
    [kind |-> "heightmap", data |-> <<0, 2, 4, 1, 3, 8, 0, 5, 9>>,
     resolution |-> 3, regionSize |-> 12, offsetX |-> -6, offsetZ |-> -6]

\* the options a behaviour may work with: seed, region and terrain
Setups == {[seed |-> 42, region |-> BoxRegion, terrain |-> HeightmapTerrain],
           [seed |-> 42, region |-> CircleRegion, terrain |-> FlatTerrain],
           [seed |-> 1337, region |-> PolygonRegion, terrain |-> HeightmapTerrain],
           [seed |-> 1337, region |-> BoxRegion, terrain |-> FlatTerrain]}

\* layer ids are strings of char codes: "r" = <<114>>, "t" = <<116>>,
\* "b" = <<98>>, "g" = <<103>>

Ruins ==
    [id |-> <<114>>, name |-> "Ruins", algorithm |-> "poisson",
     count |-> 3, minDistance |-> 5, priority |-> 15,
     constraints |-> <<[type |-> "exclusion", center |-> <<0, 0>>, radius |-> 2]>>,
     instanceTypes |-> <<[speciesId |-> "ruin", weight |-> 1000, scaleMin |-> 500,
                          scaleMax |-> 2000, rotationRandomY |-> FALSE, yOffset |-> 1]>>]

Trees ==
    [id |-> <<116>>, name |-> "Trees", algorithm |-> "grid",
     count |-> 5, minDistance |-> 4, priority |-> 5,
     constraints |-> <<[type |-> "slope", maxDegrees |-> 50]>>,
     excludesLayers |-> <<<<114>>>>,
     instanceTypes |-> <<[speciesId |-> "oak", weight |-> 700],
                         [speciesId |-> "pine", weight |-> 300, scaleMin |-> 900]>>]

Bushes ==
    [id |-> <<98>>, name |-> "Bushes", algorithm |-> "clustered",
     count |-> 4, minDistance |-> 3, priority |-> 5,
     constraints |-> <<[type |-> "height", minHeight |-> 1, maxHeight |-> 6]>>,
     excludesLayers |-> <<<<114>>, <<116>>>>,
     instanceTypes |-> <<[generator |-> "bush", weight |-> 1000]>>]

Grass ==
    [id |-> <<103>>, name |-> "Grass", algorithm |-> "density",
     count |-> 3, minDistance |-> 5, priority |-> 1,
     constraints |-> <<[type |-> "density_falloff", falloffCenter |-> <<0, 0>>,
                        falloffRadius |-> 8],
                       [type |-> "exclusion", center |-> <<4, 4>>, radius |-> 1]>>,
     excludesLayers |-> <<>>,
     instanceTypes |-> <<[weight |-> 1000, rotationRandomY |-> TRUE]>>]

\* the layers handed to scatter and the layer lists handed to scatterLayers
SingleLayers == {Trees, Grass}

LayerLists == {<<Grass, Trees>>, <<Trees, Bushes, Ruins>>, <<Bushes, Grass, Trees>>}

\* the values Math.floor(Math.random() * 100000) may take
RandomSeeds == {0, 77777}

\* the last value of the clock read by new Date()
MaxClock == 1

(***************************************************************************)
(* State: two invocations of the scatter system, one after the other, on   *)
(* the same region, terrain and seed                                       *)
(***************************************************************************)
VARIABLES
    seed,                \* options.seed
    world,               \* options.region and options.terrain
    now,                 \* the wall clock
    pc,                  \* "idle", or "loop" inside scatterLayers
    layers,              \* the layers argument of the running scatterLayers
    sorted,              \* its sorted copy
    idx,                 \* the position of the loop in sorted
    results,             \* its results map
    placedPointsByLayer, \* its map of placed points
    candidatesByLayer,   \* the candidates each layer generated (line 121)
    first,               \* the first invocation that returned, if any
    second,              \* the second invocation that returned, if any
    pools,               \* InstancePool.pools: key -> PoolEntry
    returned             \* the last call of InstancePool and what it returned

vars == <<seed, world, now, pc, layers, sorted, idx, results,
          placedPointsByLayer, candidatesByLayer, first, second, pools, returned>>

\* the invocations that returned, oldest first
calls == first \o second

Init ==
    /\ \E o \in Setups :
          /\ seed = o.seed
          /\ world = [region |-> o.region, terrain |-> o.terrain]
    /\ now = 0
    /\ pc = "idle"
    /\ layers = <<>>
    /\ sorted = <<>>
    /\ idx = 0
    /\ results = EmptyMap
    /\ placedPointsByLayer = EmptyMap
    /\ candidatesByLayer = EmptyMap
    /\ first = <<>>
    /\ second = <<>>
    /\ pools = EmptyMap
    /\ returned = [op |-> "new"]

\* the random values a call may draw: none is drawn when a seed is given
RandomChoices == IF seed = Undefined THEN RandomSeeds ELSE {0}

\* an invocation returns: its record goes to the first free slot
Returns(call) ==
    IF first = <<>> THEN first' = <<call>> /\ UNCHANGED second
    ELSE second' = <<call>> /\ UNCHANGED first

\* time passes between the two invocations
Tick ==
    /\ pc = "idle"
    /\ first # <<>>
    /\ second = <<>>
    /\ now < MaxClock
    /\ now' = now + 1
    /\ UNCHANGED <<seed, world, pc, layers, sorted, idx, results,
                   placedPointsByLayer, candidatesByLayer, first, second,
                   pools, returned>>

\* scatter returns the body b
ScatterDone(layer, b) ==
    Returns([op |-> "scatter", layers |-> <<layer>>,
             candidates |-> MapSet(EmptyMap, layer.id, b.candidates),
             out |-> MapSet(EmptyMap, layer.id, b.result)])

\* scatter(layer, {terrain, region, seed})
Scatter ==
    /\ pc = "idle"
    /\ second = <<>>
    /\ \E layer \in SingleLayers : \E random \in RandomChoices :
          ScatterDone(layer, scatterBody(layer, world.terrain, world.region,
                                         createRng(BaseSeed(seed, random)), now))
    /\ UNCHANGED <<seed, world, now, pc, layers, sorted, idx, results,
                   placedPointsByLayer, candidatesByLayer,
                   pools, returned>>

\* an entry that sorts the caller's list itself: layers.sort(...) in place
ScatterLayersBeginInPlace ==
    /\ pc = "idle"
    /\ second = <<>>
    /\ \E ls \in LayerLists :
          /\ layers' = SortByPriority(ls)
          /\ sorted' = SortByPriority(ls)
    /\ idx' = 1
    /\ results' = EmptyMap
    /\ placedPointsByLayer' = EmptyMap
    /\ candidatesByLayer' = EmptyMap
    /\ pc' = "loop"
    /\ UNCHANGED <<seed, world, now, first, second,
                   pools, returned>>

\* scatterLayers(layers, {terrain, region, seed}): entry, up to the loop
ScatterLayersBegin ==
    /\ pc = "idle"
    /\ second = <<>>
    /\ \E ls \in LayerLists :
          /\ layers' = ls
          /\ sorted' = SortByPriority(ls)
    /\ idx' = 1
    /\ results' = EmptyMap
    /\ placedPointsByLayer' = EmptyMap
    /\ candidatesByLayer' = EmptyMap
    /\ pc' = "loop"
    /\ UNCHANGED <<seed, world, now, first, second,
                   pools, returned>>

\* maps whose placed points are the candidates of the layer, unfiltered
StepDoneCandidatesPlaced(layer, b) ==
    /\ placedPointsByLayer' = MapSet(placedPointsByLayer, layer.id, b.candidates)
    /\ results' = MapSet(results, layer.id, b.result)
    /\ candidatesByLayer' = MapSet(candidatesByLayer, layer.id, b.candidates)

\* the maps after the iteration b of the layer
StepDone(layer, b) ==
    /\ placedPointsByLayer' = MapSet(placedPointsByLayer, layer.id, b.filtered)
    /\ results' = MapSet(results, layer.id, b.result)
    /\ candidatesByLayer' = MapSet(candidatesByLayer, layer.id, b.candidates)

\* an iteration whose generator is seeded by the position of the layer in
\* the processing order as well
ScatterLayersStepOrderSeeded ==
    /\ pc = "loop"
    /\ idx <= Len(sorted)
    /\ \E random \in RandomChoices :
          StepDone(sorted[idx],
                   layerBody(sorted[idx], world.terrain, world.region,
                             createRng(BaseSeed(seed, random)
                                       + hashString(sorted[idx].id) + idx),
                             placedPointsByLayer, now))
    /\ idx' = idx + 1
    /\ UNCHANGED <<seed, world, now, pc, layers, sorted, first, second,
                   pools, returned>>

\* an iteration whose generator is seeded by the base seed alone
ScatterLayersStepUnhashed ==
    /\ pc = "loop"
    /\ idx <= Len(sorted)
    /\ \E random \in RandomChoices :
          StepDone(sorted[idx],
                   layerBody(sorted[idx], world.terrain, world.region,
                             createRng(BaseSeed(seed, random)),
                             placedPointsByLayer, now))
    /\ idx' = idx + 1
    /\ UNCHANGED <<seed, world, now, pc, layers, sorted, first, second,
                   pools, returned>>

\* an iteration whose default base seed is a fixed number
ScatterLayersStepFixedDefault ==
    /\ pc = "loop"
    /\ idx <= Len(sorted)
    /\ StepDone(sorted[idx],
                layerBody(sorted[idx], world.terrain, world.region,
                          createRng(BaseSeed(seed, 12345) + hashString(sorted[idx].id)),
                          placedPointsByLayer, now))
    /\ idx' = idx + 1
    /\ UNCHANGED <<seed, world, now, pc, layers, sorted, first, second,
                   pools, returned>>

\* one iteration of for (const layer of sorted)
ScatterLayersStep ==
    /\ pc = "loop"
    /\ idx <= Len(sorted)
    /\ \E random \in RandomChoices :
          StepDone(sorted[idx],
                   layerBody(sorted[idx], world.terrain, world.region,
                             createRng(BaseSeed(seed, random) + hashString(sorted[idx].id)),
                             placedPointsByLayer, now))
    /\ idx' = idx + 1
    /\ UNCHANGED <<seed, world, now, pc, layers, sorted, first, second,
                   pools, returned>>

\* return results
ScatterLayersReturn ==
    /\ pc = "loop"
    /\ idx > Len(sorted)
    /\ Returns([op |-> "scatterLayers", layers |-> layers,
                candidates |-> candidatesByLayer, out |-> results])
    /\ pc' = "idle"
    /\ layers' = <<>>
    /\ sorted' = <<>>
    /\ idx' = 0
    /\ results' = EmptyMap
    /\ placedPointsByLayer' = EmptyMap
    /\ candidatesByLayer' = EmptyMap
    /\ UNCHANGED <<seed, world, now,
                   pools, returned>>

Next ==
    \/ Tick
    \/ Scatter
    \/ ScatterLayersBegin
    \/ ScatterLayersStep
    \/ ScatterLayersReturn

Spec == Init /\ [][Next]_vars

(***************************************************************************)
(* The exported functions called on their own, once, with the terrain and  *)
(* the seed of the options                                                 *)
(***************************************************************************)
\* the coordinates of the points handed to checkConstraints
ProbeCoords == -3..3

\* the point lists handed to applyConstraints
ProbeLists ==
    {<<>>,
     <<<<0, 0>>, <<3, 3>>, <<2, 0>>, <<3, 3>>, <<-3, 1>>>>,
     <<<<1, 2>>, <<0, -2>>, <<-1, -1>>, <<2, 2>>>>,
     <<<<-2, 0>>, <<1, 1>>, <<-3, -3>>, <<0, 3>>, <<1, 0>>, <<2, 1>>>>}

\* the constraint lists handed to them; the last two hold a type tag that is
\* none of the variants of Constraint
ConstraintLists ==
    {<<>>,
     <<[type |-> "exclusion", center |-> <<0, 0>>, radius |-> 2]>>,
     <<[type |-> "exclusion", center |-> <<1, 1>>]>>,
     <<[type |-> "height", minHeight |-> 1, maxHeight |-> 6],
       [type |-> "exclusion", center |-> <<1, 1>>, radius |-> 1]>>,
     <<[type |-> "slope", maxDegrees |-> 50], [type |-> "height", minHeight |-> 3]>>,
     <<[type |-> "density_falloff", falloffCenter |-> <<0, 0>>, falloffRadius |-> 1],
       [type |-> "slope"],
       [type |-> "exclusion", center |-> <<-1, 0>>, radius |-> 2]>>,
     <<[type |-> "moisture", minimum |-> 1]>>,
     <<[type |-> "height", maxHeight |-> 5], [type |-> "moisture", minimum |-> 1]>>}

\* a function called on its own returns
Answers(call) ==
    /\ first' = <<call>>
    /\ UNCHANGED <<seed, world, now, pc, layers, sorted, idx, results,
                   placedPointsByLayer, candidatesByLayer, second,
                   pools, returned>>

\* checkConstraints(x, z, constraints, terrain)
CheckConstraints ==
    /\ pc = "idle"
    /\ first = <<>>
    /\ \E x \in ProbeCoords : \E z \in ProbeCoords : \E cs \in ConstraintLists :
          Answers([op |-> "checkConstraints", x |-> x, z |-> z, constraints |-> cs,
                   out |-> checkConstraints(x, z, cs, world.terrain)])

\* applyConstraints(points, constraints, terrain)
ApplyConstraints ==
    /\ pc = "idle"
    /\ first = <<>>
    /\ \E points \in ProbeLists : \E cs \in ConstraintLists :
          Answers([op |-> "applyConstraints", points |-> points, constraints |-> cs,
                   out |-> applyConstraints(points, cs, world.terrain)])

\* a box of 80 by 80, an L of two arms of width 1 in a box of 100 by 100,
\* three regions of zero area, and a region whose type tag is no variant
WideBox == [type |-> "bounds", minX |-> -40, maxX |-> 40, minZ |-> -40, maxZ |-> 40]

LRegion ==
    [type |-> "polygon",
     points |-> <<[x |-> 0, z |-> 0], [x |-> 100, z |-> 0], [x |-> 100, z |-> 1],
                  [x |-> 1, z |-> 1], [x |-> 1, z |-> 100], [x |-> 0, z |-> 100]>>]

PointBox == [type |-> "bounds", minX |-> 2, maxX |-> 2, minZ |-> 1, maxZ |-> 1]

LineBox == [type |-> "bounds", minX |-> 2, maxX |-> 2, minZ |-> -3, maxZ |-> 3]

PointCircle == [type |-> "circle", centerX |-> 2, centerZ |-> 1, radius |-> 0]

EllipseRegion ==
    [type |-> "ellipse", centerX |-> 0, centerZ |-> 0, radiusX |-> 4, radiusZ |-> 2]

\* the options handed to grid
GridProbes ==
    ([region : {WideBox}, spacing : {20}, maxPoints : {Undefined, 4, 30},
      jitter : {Undefined, 0, 500}, seed : {42, 7}])
    \cup ([region : {BoxRegion, CircleRegion}, spacing : {10}, maxPoints : {Undefined, 2},
           jitter : {Undefined, 400}, seed : {42}])
    \cup ([region : {PointBox, LineBox, PointCircle}, spacing : {1, 2}, maxPoints : {1, 2},
           jitter : {0}, seed : {42}])
    \cup ([region : {EllipseRegion}, spacing : {4}, maxPoints : {Undefined, 5},
           jitter : {Undefined}, seed : {42}])

\* the options handed to clustered; with the seeds 1, 192, 1724 and 17 the
\* first cluster center inside LRegion is that of attempt 1, 99, 100 and none
ClusterProbes ==
    ([region : {LRegion}, totalCount : {2}, seed : {1, 192, 1724, 17}])
    \cup ([region : {PointBox, LineBox, PointCircle}, totalCount : {1, 3}, seed : {42}])
    \cup ([region : {BoxRegion, PolygonRegion, EllipseRegion}, totalCount : {4}, seed : {42, 7}])

\* grid({ region, spacing, maxPoints, jitter, rng }): out holds the points
\* returned and the state the generator is left in, or the error thrown
Grid ==
    /\ pc = "idle"
    /\ first = <<>>
    /\ \E o \in GridProbes :
          Answers([op |-> "grid", options |-> o,
                   out |-> grid(o.region, o.spacing, o.maxPoints,
                                IF o.jitter = Undefined THEN DefaultJitter ELSE o.jitter,
                                createRng(o.seed))])

\* clustered({ region, totalCount, rng })
Clustered ==
    /\ pc = "idle"
    /\ first = <<>>
    /\ \E o \in ClusterProbes :
          Answers([op |-> "clustered", options |-> o,
                   out |-> clustered(o.region, o.totalCount, createRng(o.seed))])

\* layers like Trees with the ids "Aa" = <<65, 97>> and "BB" = <<66, 66>>,
\* and the lists that hold them
TwinLists ==
    {<<[Trees EXCEPT !.id = <<65, 97>>], [Trees EXCEPT !.id = <<66, 66>>]>>,
     <<[Trees EXCEPT !.id = <<66, 66>>], Ruins, [Trees EXCEPT !.id = <<65, 97>>]>>,
     <<Grass, [Trees EXCEPT !.id = <<65, 97>>]>>}

\* scatterLayers(layers, {terrain, region, seed}) on one of these lists:
\* entry, up to the loop
ScatterLayersTwins ==
    /\ pc = "idle"
    /\ first = <<>>
    /\ \E ls \in TwinLists :
          /\ layers' = ls
          /\ sorted' = SortByPriority(ls)
    /\ idx' = 1
    /\ results' = EmptyMap
    /\ placedPointsByLayer' = EmptyMap
    /\ candidatesByLayer' = EmptyMap
    /\ pc' = "loop"
    /\ UNCHANGED <<seed, world, now, first, second,
                   pools, returned>>

\* the arguments handed to applyCrossLayerExclusion: the layers "r" and "t"
\* have placed points or not, and are named or not, with a layer "c" that
\* never placed any
ExclusionProbes ==
    [candidates : ProbeLists,
     excludedLayerIds : {<<>>, <<<<114>>>>, <<<<116>>, <<114>>>>, <<<<99>>, <<116>>>>},
     placed : {EmptyMap,
               MapSet(EmptyMap, <<114>>, <<<<3, 0>>, <<-1, -1>>>>),
               MapSet(MapSet(EmptyMap, <<114>>, <<<<3, 0>>, <<-1, -1>>>>),
                      <<116>>, <<<<0, 3>>, <<-3, -2>>, <<2, 2>>>>)},
     minDistance : {1, 2, 3}]

\* applyCrossLayerExclusion(candidates, excludedLayerIds, placedPointsByLayer,
\* minDistance)
ApplyCrossLayerExclusion ==
    /\ pc = "idle"
    /\ first = <<>>
    /\ \E a \in ExclusionProbes :
          Answers([op |-> "applyCrossLayerExclusion", args |-> a,
                   out |-> applyCrossLayerExclusion(a.candidates, a.excludedLayerIds,
                                                    a.placed, a.minDistance)])

\* the pools handed to selectInstanceType, with the seeds of its generator
TypePools ==
    {Trees.instanceTypes, Grass.instanceTypes,
     <<[speciesId |-> "fern", weight |-> 1], [speciesId |-> "moss", weight |-> 1],
       [speciesId |-> "reed", weight |-> 2]>>,
     <<[speciesId |-> "elm", weight |-> 50], [speciesId |-> "ash", weight |-> 900],
       [speciesId |-> "yew", weight |-> 30], [speciesId |-> "fir", weight |-> 20]>>}

TypeSeeds == 1..12

\* selectInstanceType(types, rng): out is <<the generator state it leaves,
\* the entry it returns>>
SelectInstanceType ==
    /\ pc = "idle"
    /\ first = <<>>
    /\ \E types \in TypePools : \E s \in TypeSeeds :
          Answers([op |-> "selectInstanceType", types |-> types, seed |-> s,
                   out |-> selectInstanceType(types, createRng(s))])

\* the constraint lists handed to densityFunction
FalloffLists ==
    {<<[type |-> "density_falloff", falloffCenter |-> <<0, 0>>, falloffRadius |-> 4]>>,
     <<[type |-> "slope", maxDegrees |-> 50],
       [type |-> "density_falloff", falloffCenter |-> <<3, 3>>, falloffRadius |-> 5]>>,
     <<[type |-> "height", minHeight |-> 1]>>}

\* the options handed to densityFunction
DensityProbes ==
    [region : {BoxRegion, CircleRegion}, targetCount : {2, 3}, minDistance : {5},
     constraints : FalloffLists, seed : {42, 7}]
    \cup [region : {BoxRegion}, targetCount : {2}, minDistance : {Undefined},
          constraints : FalloffLists, seed : {1337}]

\* densityFunction({ region, targetCount, minDistance, constraints, rng })
DensityFunction ==
    /\ pc = "idle"
    /\ first = <<>>
    /\ \E o \in DensityProbes :
          Answers([op |-> "densityFunction", options |-> o,
                   out |-> densityFunction(o.region, o.targetCount, o.minDistance,
                                           o.constraints, createRng(o.seed))])

\* a heightmap of resolution 2, offset from the origin
SmallHeightmap ==
    [kind |-> "heightmap", data |-> <<5, 1, 7, 2>>,
     resolution |-> 2, regionSize |-> 4, offsetX |-> 1, offsetZ |-> 0]

\* world coordinates inside and outside both grids
HeightCoords == -7..7

\* HeightmapTerrainSampler.getHeight(x, z), with the indices of data it read
GetHeight ==
    /\ pc = "idle"
    /\ first = <<>>
    /\ \E tr \in {HeightmapTerrain, SmallHeightmap}, x \in HeightCoords, z \in HeightCoords :
          Answers([op |-> "getHeight", terrain |-> tr, x |-> x, z |-> z,
                   reads |-> CornerIndices(tr, x, z), out |-> getHeight(tr, x, z)])

\* the instance types of the layers handed to buildInstances: every optional
\* field present, every optional field absent, a weighted pair, and a type
\* that sets scaleMin alone, above the default scaleMax
TypeLists ==
    {<<[speciesId |-> "ruin", weight |-> 1000, scaleMin |-> 500, scaleMax |-> 2000,
        rotationRandomY |-> FALSE, yOffset |-> 1]>>,
     <<[weight |-> 1000]>>,
     <<[speciesId |-> "oak", weight |-> 700, yOffset |-> 2],
       [generator |-> "pine", weight |-> 300, scaleMin |-> 900, rotationRandomY |-> FALSE]>>,
     <<[speciesId |-> "boulder", weight |-> 1000, scaleMin |-> 1500]>>}

\* buildInstances(points, layer, terrain, rng)
BuildInstances ==
    /\ pc = "idle"
    /\ first = <<>>
    /\ \E points \in ProbeLists : \E types \in TypeLists : \E s \in {42, 7} :
          Answers([op |-> "buildInstances", points |-> points, types |-> types,
                   terrain |-> world.terrain,
                   out |-> buildInstances(points, [instanceTypes |-> types],
                                          world.terrain, createRng(s)).instances])

\* scatterLayers([layer], {terrain, region, seed}): entry, up to the loop
ScatterLayersSolo ==
    /\ pc = "idle"
    /\ first = <<>>
    /\ \E layer \in {Ruins, Trees, Bushes, Grass} :
          /\ layers' = <<layer>>
          /\ sorted' = SortByPriority(<<layer>>)
    /\ idx' = 1
    /\ results' = EmptyMap
    /\ placedPointsByLayer' = EmptyMap
    /\ candidatesByLayer' = EmptyMap
    /\ pc' = "loop"
    /\ UNCHANGED <<seed, world, now, first, second,
                   pools, returned>>

\* scatter(layer, {terrain, region, seed: s}) after scatterLayers([layer]) of
\* seed S has returned, for s = S and for s = S + hashString(layer.id)
ScatterSeeded ==
    /\ pc = "idle"
    /\ first # <<>>
    /\ second = <<>>
    /\ first[1].op = "scatterLayers"
    /\ Len(first[1].layers) = 1
    /\ \E s \in {seed, seed + hashString(first[1].layers[1].id)} :
          second' = <<[op |-> "scatter", layers |-> first[1].layers, seed |-> s,
                       out |-> scatterBody(first[1].layers[1], world.terrain, world.region,
                                           createRng(s), now).result]>>
    /\ UNCHANGED <<seed, world, now, pc, layers, sorted, idx, results,
                   placedPointsByLayer, candidatesByLayer, first,
                   pools, returned>>

NextFunctions ==
    \/ CheckConstraints
    \/ ScatterLayersSolo
    \/ ScatterSeeded
    \/ BuildInstances
    \/ GetHeight
    \/ DensityFunction
    \/ SelectInstanceType
    \/ ApplyConstraints
    \/ ApplyCrossLayerExclusion
    \/ Grid
    \/ Clustered
    \/ ScatterLayersTwins
    \/ ScatterLayersStep
    \/ ScatterLayersReturn

SpecFunctions == Init /\ [][NextFunctions]_vars

\* the state after construction when the caller's options hold no seed
InitUnseeded ==
    /\ seed = Undefined
    /\ world \in {[region |-> BoxRegion, terrain |-> HeightmapTerrain],
                  [region |-> CircleRegion, terrain |-> FlatTerrain]}
    /\ now = 0
    /\ pc = "idle"
    /\ layers = <<>>
    /\ sorted = <<>>
    /\ idx = 0
    /\ results = EmptyMap
    /\ placedPointsByLayer = EmptyMap
    /\ candidatesByLayer = EmptyMap
    /\ first = <<>>
    /\ second = <<>>
    /\ pools = EmptyMap
    /\ returned = [op |-> "new"]

\* one call of scatterLayers
NextUnseeded ==
    \/ ScatterLayersTwins
    \/ ScatterLayersSolo
    \/ ScatterLayersStep
    \/ ScatterLayersReturn

\* the calls of a caller that supplies no seed
SpecUnseeded == InitUnseeded /\ [][NextUnseeded]_vars

(***************************************************************************)
(* InstancePool                                                            *)
(***************************************************************************)
\* the keys of the pools, the capacities handed to register (absent: the
\* default), the matrices composed from position, rotation and scale, and
\* the largest count a pool is filled to
PoolKeys == {"a", "b"}

DefaultCapacity == 100

Capacities == {Undefined, 1, 2}

Matrices == {1, 2}

MaxInstances == 3

\* new THREE.InstancedMesh(geometry, material, capacity): count = capacity
\* and a zero-filled instanceMatrix of capacity matrices
InstancedMesh(name, capacity) ==
    [name |-> name, count |-> capacity, instanceMatrix |-> [i \in 1..capacity |-> 0]]

\* the entry that register sets, its mesh starting with count 0
NewEntry(key, initialCapacity) ==
    [mesh |-> [InstancedMesh(key, initialCapacity) EXCEPT !.count = 0],
     count |-> 0,
     capacity |-> initialCapacity]

\* what the scatter system holds is left alone by the pool
ScatterUnchanged ==
    UNCHANGED <<seed, world, now, pc, layers, sorted, idx, results,
                placedPointsByLayer, candidatesByLayer, first, second>>

\* register(key, geometry, material, initialCapacity = 100)
Register ==
    /\ \E key \in PoolKeys : \E c \in Capacities :
          /\ pools' = IF key \in DOMAIN pools THEN pools
                       ELSE MapSet(pools, key,
                                   NewEntry(key, IF c = Undefined THEN DefaultCapacity ELSE c))
          /\ returned' = [op |-> "register", key |-> key]
    /\ ScatterUnchanged

\* a grow that copies no matrix
growEmpty(entry, newCapacity) ==
    [entry EXCEPT !.mesh = [InstancedMesh(entry.mesh.name, newCapacity)
                               EXCEPT !.count = entry.count],
                  !.capacity = newCapacity]

\* grow(key, newCapacity): a larger mesh with the first count matrices copied
grow(entry, newCapacity) ==
    [entry EXCEPT !.mesh = [InstancedMesh(entry.mesh.name, newCapacity)
                               EXCEPT !.count = entry.count,
                                      !.instanceMatrix =
                                          [i \in 1..newCapacity |->
                                              IF i <= entry.count
                                              THEN entry.mesh.instanceMatrix[i] ELSE 0]],
                  !.capacity = newCapacity]

\* setMatrixAt(entry.count, matrix); mesh.count = entry.count + 1; entry.count++
SetMatrix(entry, matrix) ==
    [entry EXCEPT !.mesh.instanceMatrix[entry.count + 1] = matrix,
                  !.mesh.count = entry.count + 1,
                  !.count = entry.count + 1]

\* the entry after add: grown first if it is at capacity
Added(entry, matrix) ==
    SetMatrix(IF entry.count >= entry.capacity THEN grow(entry, entry.capacity * 2)
              ELSE entry,
              matrix)

\* add(key, position, rotation, scale): the index of the instance, or -1
Add ==
    /\ \E key \in PoolKeys : \E matrix \in Matrices :
          IF key \notin DOMAIN pools
          THEN /\ pools' = pools
               /\ returned' = [op |-> "add", key |-> key, matrix |-> matrix, out |-> -1]
          ELSE /\ pools[key].count < MaxInstances
               /\ pools' = MapSet(pools, key, Added(pools[key], matrix))
               /\ returned' = [op |-> "add", key |-> key, matrix |-> matrix,
                               out |-> Added(pools[key], matrix).count - 1]
    /\ ScatterUnchanged

\* clear(key)
Clear ==
    /\ \E key \in PoolKeys :
          /\ pools' = IF key \in DOMAIN pools
                       THEN [pools EXCEPT ![key].count = 0, ![key].mesh.count = 0]
                       ELSE pools
          /\ returned' = [op |-> "clear", key |-> key]
    /\ ScatterUnchanged

\* a pool on its own
InitPool == Init /\ seed = 42 /\ world.terrain = FlatTerrain

NextPool ==
    \/ Register
    \/ Add
    \/ Clear

SpecPool == InitPool /\ [][NextPool]_vars

(***************************************************************************)
(* Properties                                                              *)
(***************************************************************************)
\* C1: for a fixed seed, region and terrain, two invocations of scatter on
\* the same layer, or of scatterLayers on the same layer list, return equal
\* instance lists (same length, ids, speciesId, positions, rotations and
\* scales), whatever time passed between them
C1_SameSeedSameInstances ==
    \A i \in 1..Len(calls) : \A j \in 1..Len(calls) :
        (calls[i].op = calls[j].op /\ calls[i].layers = calls[j].layers)
        => /\ DOMAIN calls[i].out = DOMAIN calls[j].out
           /\ \A id \in DOMAIN calls[i].out :
                 calls[i].out[id].instances = calls[j].out[id].instances

\* two invocations of scatterLayers on the same three layers, at different
\* times, have returned, each with instances for every layer
C1_Witness ==
    /\ Len(calls) = 2
    /\ calls[1].op = "scatterLayers"
    /\ calls[2].op = "scatterLayers"
    /\ calls[1].layers = calls[2].layers
    /\ Len(calls[1].layers) = 3
    /\ \A id \in DOMAIN calls[1].out :
          /\ calls[1].out[id].instances # <<>>
          /\ calls[1].out[id].manifest.createdAt < calls[2].out[id].manifest.createdAt

\* C2 as stated: two runs with the same layer set, region and seed yield
\* manifests equal in every field, createdAt included
C2_BitIdenticalManifests ==
    \A i \in 1..Len(calls) : \A j \in 1..Len(calls) :
        (calls[i].op = calls[j].op /\ calls[i].layers = calls[j].layers)
        => \A id \in DOMAIN calls[i].out :
              calls[i].out[id].manifest = calls[j].out[id].manifest

\* C2, amended: two runs with the same layer set, region and seed yield
\* manifests equal in id, layerId, instances, algorithm and region; createdAt
\* is the time of each run
C2_ManifestsEqualButCreatedAt ==
    \A i \in 1..Len(calls) : \A j \in 1..Len(calls) :
        (calls[i].op = calls[j].op /\ calls[i].layers = calls[j].layers)
        => \A id \in DOMAIN calls[i].out :
              LET m == calls[i].out[id].manifest
                  n == calls[j].out[id].manifest
              IN /\ m.id = n.id
                 /\ m.layerId = n.layerId
                 /\ m.instances = n.instances
                 /\ m.algorithm = n.algorithm
                 /\ m.region = n.region
                 /\ m.createdAt \in 0..now
                 /\ n.createdAt \in 0..now

\* scatter ran twice on the same layer, the second time later than the first
C2_Witness ==
    /\ Len(calls) = 2
    /\ calls[1].op = "scatter"
    /\ calls[2].op = "scatter"
    /\ calls[1].layers = calls[2].layers
    /\ \E id \in DOMAIN calls[1].out :
          /\ calls[1].out[id].manifest.instances # <<>>
          /\ calls[1].out[id].manifest.createdAt # calls[2].out[id].manifest.createdAt

\* C3: every instance of a manifest produced by scatter or scatterLayers has
\* an (x, z) position that passes checkConstraints for the constraints of its
\* layer and isPointInRegion for the region of the call
C3_InstancesPassConstraintsAndRegion ==
    /\ \A i \in 1..Len(calls) : \A k \in 1..Len(calls[i].layers) :
          LET layer == calls[i].layers[k]
          IN layer.id \in DOMAIN calls[i].out =>
                LET insts == calls[i].out[layer.id].manifest.instances
                IN \A n \in 1..Len(insts) :
                      /\ checkConstraints(insts[n].position.x, insts[n].position.z,
                                          layer.constraints, world.terrain)
                      /\ isPointInRegion(insts[n].position.x, insts[n].position.z,
                                         world.region)
    /\ \A k \in 1..Len(sorted) :
          sorted[k].id \in DOMAIN results =>
             LET insts == results[sorted[k].id].manifest.instances
             IN \A n \in 1..Len(insts) :
                   /\ checkConstraints(insts[n].position.x, insts[n].position.z,
                                       sorted[k].constraints, world.terrain)
                   /\ isPointInRegion(insts[n].position.x, insts[n].position.z,
                                      world.region)

\* a call returned instances for a layer of which a candidate inside the
\* region failed a constraint
C3_Witness ==
    \E i \in 1..Len(calls) : \E k \in 1..Len(calls[i].layers) :
        LET layer == calls[i].layers[k]
            cand == calls[i].candidates[layer.id]
        IN /\ calls[i].out[layer.id].manifest.instances # <<>>
           /\ \E n \in 1..Len(cand) :
                 /\ isPointInRegion(cand[n][1], cand[n][2], world.region)
                 /\ ~checkConstraints(cand[n][1], cand[n][2], layer.constraints,
                                      world.terrain)

\* C4: in scatterLayers, when layer A names in excludesLayers a layer L that
\* was placed before A, every instance of A is at (x, z) distance at least
\* A.minDistance from every instance of L
C4_CrossLayerDistance ==
    \A i \in 1..Len(calls) :
        calls[i].op = "scatterLayers" =>
           \A a \in 1..Len(calls[i].layers) : \A l \in 1..Len(calls[i].layers) :
              LET A == calls[i].layers[a]
                  L == calls[i].layers[l]
                  placedBefore == \/ L.priority > A.priority
                                  \/ L.priority = A.priority /\ l < a
              IN (/\ placedBefore
                  /\ Has(A, "excludesLayers")
                  /\ \E e \in 1..Len(A.excludesLayers) : A.excludesLayers[e] = L.id)
                 => \A m \in 1..Len(calls[i].out[A.id].instances) :
                    \A n \in 1..Len(calls[i].out[L.id].instances) :
                       LET p == calls[i].out[A.id].instances[m].position
                           q == calls[i].out[L.id].instances[n].position
                       IN DistSq(<<p.x, p.z>>, <<q.x, q.z>>)
                             >= A.minDistance * A.minDistance

\* scatterLayers returned instances for a layer A of which a candidate lay
\* closer than A.minDistance to an instance of a layer it excludes
C4_Witness ==
    \E i \in 1..Len(calls) :
        /\ calls[i].op = "scatterLayers"
        /\ \E a \in 1..Len(calls[i].layers) : \E l \in 1..Len(calls[i].layers) :
              LET A == calls[i].layers[a]
                  L == calls[i].layers[l]
                  cand == calls[i].candidates[A.id]
              IN /\ L.priority > A.priority
                 /\ Has(A, "excludesLayers")
                 /\ \E e \in 1..Len(A.excludesLayers) : A.excludesLayers[e] = L.id
                 /\ calls[i].out[A.id].instances # <<>>
                 /\ \E c \in 1..Len(cand) :
                    \E n \in 1..Len(calls[i].out[L.id].instances) :
                       LET q == calls[i].out[L.id].instances[n].position
                       IN DistSq(cand[c], <<q.x, q.z>>) < A.minDistance * A.minDistance

\* C5: inside scatterLayers the processing order holds the input layers in
\* non-increasing priority, equal priorities in input order, the layers are
\* processed in that order, and when a layer is about to be filtered every
\* layer of strictly higher priority has recorded its placed points and no
\* layer of strictly lower priority has
C5_PriorityOrder ==
    pc = "loop" =>
       /\ Len(sorted) = Len(layers)
       /\ \A k \in 1..Len(layers) : \E n \in 1..Len(sorted) : sorted[n] = layers[k]
       /\ \A m \in 1..Len(sorted) : \A n \in 1..Len(sorted) :
             m < n =>
                /\ sorted[m].priority >= sorted[n].priority
                /\ sorted[m].priority = sorted[n].priority =>
                      \E a \in 1..Len(layers) : \E b \in 1..Len(layers) :
                         a < b /\ layers[a] = sorted[m] /\ layers[b] = sorted[n]
       /\ DOMAIN placedPointsByLayer = {sorted[k].id : k \in 1..(idx - 1)}
       /\ idx <= Len(sorted) =>
             \A k \in 1..Len(layers) :
                /\ layers[k].priority > sorted[idx].priority
                      => layers[k].id \in DOMAIN placedPointsByLayer
                /\ layers[k].priority < sorted[idx].priority
                      => layers[k].id \notin DOMAIN placedPointsByLayer

\* the last layer of a list is about to be filtered, the list was not in
\* priority order and held two layers of equal priority
C5_Witness ==
    /\ pc = "loop"
    /\ idx = Len(sorted)
    /\ sorted # layers
    /\ \E m \in 1..Len(sorted) : \E n \in 1..Len(sorted) :
          m < n /\ sorted[m].priority = sorted[n].priority
    /\ \E k \in 1..Len(layers) : layers[k].priority > sorted[idx].priority

\* C6: with a caller-supplied seed, the candidates scatterLayers generates
\* for a layer are the same whatever other layers the list holds and
\* wherever the layer stands in it
C6_CandidatesIndependentOfOtherLayers ==
    \A i \in 1..Len(calls) :
        calls[i].op = "scatterLayers" =>
           /\ \A j \in 1..Len(calls) :
                 calls[j].op = "scatterLayers" =>
                    \A id \in (DOMAIN calls[i].candidates) \cap (DOMAIN calls[j].candidates) :
                       calls[i].candidates[id] = calls[j].candidates[id]
           /\ \A id \in (DOMAIN calls[i].candidates) \cap (DOMAIN candidatesByLayer) :
                 calls[i].candidates[id] = candidatesByLayer[id]

\* scatterLayers returned for two different lists that share a layer, which
\* stood at different places of the two processing orders and had candidates
C6_Witness ==
    /\ Len(calls) = 2
    /\ calls[1].op = "scatterLayers"
    /\ calls[2].op = "scatterLayers"
    /\ calls[1].layers # calls[2].layers
    /\ \E a \in 1..Len(calls[1].layers) : \E b \in 1..Len(calls[2].layers) :
          /\ calls[1].layers[a] = calls[2].layers[b]
          /\ calls[1].candidates[calls[1].layers[a].id] # <<>>
          /\ \E m \in 1..Len(calls[1].layers) :
                /\ SortByPriority(calls[1].layers)[m] = calls[1].layers[a]
                /\ m <= Len(calls[2].layers)
                /\ SortByPriority(calls[2].layers)[m] # calls[2].layers[b]

\* C7: the map scatterLayers returns holds exactly one entry per layer of
\* the input list, keyed by the layer's id, whose manifest carries the
\* layer's id and algorithm and the region of the call
C7_OneEntryPerLayer ==
    \A i \in 1..Len(calls) :
        calls[i].op = "scatterLayers" =>
           /\ DOMAIN calls[i].out =
                 {calls[i].layers[k].id : k \in 1..Len(calls[i].layers)}
           /\ Cardinality(DOMAIN calls[i].out) = Len(calls[i].layers)
           /\ \A k \in 1..Len(calls[i].layers) :
                 LET m == calls[i].out[calls[i].layers[k].id].manifest
                 IN /\ m.layerId = calls[i].layers[k].id
                    /\ m.algorithm = calls[i].layers[k].algorithm
                    /\ m.region = world.region

\* scatterLayers returned for a list of three layers that was processed in
\* another order than given
C7_Witness ==
    \E i \in 1..Len(calls) :
        /\ calls[i].op = "scatterLayers"
        /\ Len(calls[i].layers) = 3
        /\ SortByPriority(calls[i].layers) # calls[i].layers
        /\ Cardinality(DOMAIN calls[i].out) = 3

\* C8: every two distinct points of a list returned by poissonDisk are at
\* distance at least minDistance
C8_PoissonMinDistance ==
    /\ \A i \in 1..Len(calls) : \A k \in 1..Len(calls[i].layers) :
          LET layer == calls[i].layers[k]
          IN (layer.algorithm = "poisson" /\ layer.id \in DOMAIN calls[i].candidates) =>
                LET pts == calls[i].candidates[layer.id]
                IN \A m \in 1..Len(pts) : \A n \in 1..Len(pts) :
                      m # n => DistSq(pts[m], pts[n])
                                  >= layer.minDistance * layer.minDistance
    /\ \A k \in 1..Len(sorted) :
          (sorted[k].algorithm = "poisson" /\ sorted[k].id \in DOMAIN candidatesByLayer) =>
             LET pts == candidatesByLayer[sorted[k].id]
             IN \A m \in 1..Len(pts) : \A n \in 1..Len(pts) :
                   m # n => DistSq(pts[m], pts[n])
                               >= sorted[k].minDistance * sorted[k].minDistance

\* poissonDisk returned as many points as maxPoints allows, at least two, in
\* a region that is not a box
C8_Witness ==
    /\ world.region.type # "bounds"
    /\ \E k \in 1..Len(sorted) :
          /\ sorted[k].algorithm = "poisson"
          /\ sorted[k].id \in DOMAIN candidatesByLayer
          /\ Len(candidatesByLayer[sorted[k].id]) >= 2
          /\ Len(candidatesByLayer[sorted[k].id]) = sorted[k].count

\* C9: every point returned by poissonDisk, clustered, densityFunction or
\* grid satisfies isPointInRegion for the region of the call
C9_PointsInRegion ==
    /\ \A i \in 1..Len(calls) : \A id \in DOMAIN calls[i].candidates :
          \A n \in 1..Len(calls[i].candidates[id]) :
             isPointInRegion(calls[i].candidates[id][n][1],
                             calls[i].candidates[id][n][2], world.region)
    /\ \A id \in DOMAIN candidatesByLayer :
          \A n \in 1..Len(candidatesByLayer[id]) :
             isPointInRegion(candidatesByLayer[id][n][1],
                             candidatesByLayer[id][n][2], world.region)

\* in a polygon region, three layers of three different algorithms have each
\* generated points
C9_Witness ==
    /\ world.region.type = "polygon"
    /\ pc = "loop"
    /\ Cardinality(DOMAIN candidatesByLayer) = 3
    /\ Cardinality({sorted[k].algorithm : k \in 1..Len(sorted)}) = 3
    /\ \A id \in DOMAIN candidatesByLayer : candidatesByLayer[id] # <<>>

\* C10: an algorithm returns at most the number of points asked for, and a
\* manifest holds at most layer.count instances
C10_AtMostRequested ==
    /\ \A i \in 1..Len(calls) : \A k \in 1..Len(calls[i].layers) :
          LET layer == calls[i].layers[k]
          IN layer.id \in DOMAIN calls[i].out =>
                /\ Len(calls[i].candidates[layer.id]) <= layer.count
                /\ Len(calls[i].out[layer.id].manifest.instances) <= layer.count
                /\ Len(calls[i].out[layer.id].instances) <= layer.count
    /\ \A k \in 1..Len(sorted) :
          sorted[k].id \in DOMAIN results =>
             /\ Len(candidatesByLayer[sorted[k].id]) <= sorted[k].count
             /\ Len(results[sorted[k].id].manifest.instances) <= sorted[k].count

\* grid returned exactly the number of points asked for and all of them
\* became instances
C10_Witness ==
    \E i \in 1..Len(calls) : \E k \in 1..Len(calls[i].layers) :
        LET layer == calls[i].layers[k]
        IN /\ layer.algorithm = "grid"
           /\ Len(calls[i].candidates[layer.id]) = layer.count
           /\ Len(calls[i].out[layer.id].manifest.instances) = layer.count

\* out holds exactly the entries of inp whose index is in kept, in their order
IsSelection(out, inp, kept) ==
    /\ Len(out) = Cardinality(kept)
    /\ \A k \in 1..Len(out) :
          \E n \in kept : Cardinality({m \in kept : m <= n}) = k /\ out[k] = inp[n]

\* C11: checkConstraints is true exactly when every constraint of the list
\* passes on its own (true for the empty list), and applyConstraints returns
\* exactly the input points for which checkConstraints is true, in input order
C11_ConjunctionAndFilter ==
    \A i \in 1..Len(calls) :
        /\ calls[i].op = "checkConstraints" =>
              (calls[i].out <=>
                  \A k \in 1..Len(calls[i].constraints) :
                     checkSingleConstraint(calls[i].x, calls[i].z,
                                           calls[i].constraints[k], world.terrain))
        /\ calls[i].op = "applyConstraints" =>
              IsSelection(calls[i].out, calls[i].points,
                          {n \in 1..Len(calls[i].points) :
                              checkConstraints(calls[i].points[n][1],
                                               calls[i].points[n][2],
                                               calls[i].constraints, world.terrain)})

\* applyConstraints dropped some points and kept others, of a list whose
\* first constraint passes where a later one fails
C11_Witness ==
    \E i \in 1..Len(calls) :
        /\ calls[i].op = "applyConstraints"
        /\ Len(calls[i].constraints) > 1
        /\ Len(calls[i].out) > 1
        /\ Len(calls[i].out) < Len(calls[i].points)
        /\ \E n \in 1..Len(calls[i].points) :
              /\ checkSingleConstraint(calls[i].points[n][1], calls[i].points[n][2],
                                        calls[i].constraints[1], world.terrain)
              /\ ~checkConstraints(calls[i].points[n][1], calls[i].points[n][2],
                                    calls[i].constraints, world.terrain)

\* a recorded call of checkConstraints with one exclusion constraint that has
\* a center and a radius
IsExclusionCall(call) ==
    /\ call.op = "checkConstraints"
    /\ Len(call.constraints) = 1
    /\ call.constraints[1].type = "exclusion"
    /\ Has(call.constraints[1], "center")
    /\ Has(call.constraints[1], "radius")

\* the squared distance from the point of the call to the center of its disk
ToCenterSq(call) ==
    DistSq(<<call.x, call.z>>, call.constraints[1].center)

\* the squared radius of the disk of the call
RadiusSq(call) == call.constraints[1].radius * call.constraints[1].radius

\* C12: an exclusion constraint with a center and a radius rejects a point if
\* and only if the squared distance from the point to the center is at most
\* the radius squared
C12_ExclusionRejectsWithinRadius ==
    \A i \in 1..Len(calls) :
        IsExclusionCall(calls[i]) =>
            (~calls[i].out <=> ToCenterSq(calls[i]) <= RadiusSq(calls[i]))

\* a point strictly inside the disk, but not at its center, was rejected
C12_Witness ==
    \E i \in 1..Len(calls) :
        /\ IsExclusionCall(calls[i])
        /\ ToCenterSq(calls[i]) > 0
        /\ ToCenterSq(calls[i]) < RadiusSq(calls[i])
        /\ ~calls[i].out

\* C13 (as stated): a point exactly on the boundary of an exclusion disk
\* passes the exclusion constraint
C13_BoundaryPasses ==
    \A i \in 1..Len(calls) :
        (IsExclusionCall(calls[i]) /\ ToCenterSq(calls[i]) = RadiusSq(calls[i]))
            => calls[i].out

\* C13 (amended): a point exactly on the boundary of an exclusion disk fails
\* the exclusion constraint; every point that passes is strictly outside
C13_BoundaryFails ==
    \A i \in 1..Len(calls) :
        IsExclusionCall(calls[i]) =>
            /\ ToCenterSq(calls[i]) = RadiusSq(calls[i]) => ~calls[i].out
            /\ calls[i].out => ToCenterSq(calls[i]) > RadiusSq(calls[i])

\* a point exactly on the boundary of the disk was checked
C13_Witness ==
    \E i \in 1..Len(calls) :
        /\ IsExclusionCall(calls[i])
        /\ ToCenterSq(calls[i]) = RadiusSq(calls[i])
        /\ RadiusSq(calls[i]) > 0

\* the type tags of the declared variants of Region and of Constraint
RegionTypes == {"bounds", "circle", "polygon"}

ConstraintTypes == {"slope", "exclusion", "height", "density_falloff"}

\* the region of the call, or one of its constraints, has a type tag that is
\* none of the declared variants
HasUnknownVariant(call) ==
    \/ Has(call, "options") /\ call.options.region.type \notin RegionTypes
    \/ /\ Has(call, "constraints")
       /\ \E k \in 1..Len(call.constraints) :
             call.constraints[k].type \notin ConstraintTypes

\* C14: a region or a constraint whose type tag is not one of the known
\* variants is rejected early: the call ends in a rejection, not in an
\* output computed from the unknown variant or in an error thrown from
\* inside an algorithm
C14_UnknownVariantRejected ==
    \A i \in 1..Len(calls) :
        HasUnknownVariant(calls[i]) => Has(calls[i], "rejected")

\* a call of an algorithm on a region of a declared variant
IsAlgorithmCall(call) ==
    Has(call, "options") /\ call.options.region.type \in RegionTypes

\* the number of points the call asks for
Requested(call) ==
    IF call.op = "clustered" THEN call.options.totalCount ELSE call.options.maxPoints

\* C15: for a region of zero area and a requested count of at least 1, an
\* algorithm returns, without raising an error, fewer points than requested
C15_ZeroAreaYieldsFewer ==
    \A i \in 1..Len(calls) :
        (/\ IsAlgorithmCall(calls[i])
         /\ getRegionArea(calls[i].options.region) = 0
         /\ Requested(calls[i]) >= 1)
            => /\ ~Has(calls[i].out, "threw")
               /\ Len(calls[i].out.pts) < Requested(calls[i])

\* the center loop of the first cluster of a call of clustered
FirstCenter(o) ==
    ClusterCenter(getRegionBounds(o.region), o.region, createRng(o.seed))

\* the first cluster alone: the body of the cluster loop for c = 0, the
\* last cluster of a loop of one
FirstCluster(o) ==
    ClusterAt(0, 1,
              ClusterBaseRadius(getRegionArea(o.region), ClusterCount(o.totalCount)),
              getRegionBounds(o.region), o.region, <<>>, o.totalCount, FirstCenter(o))

\* the candidate center of attempt j of the first cluster is inside the region
FirstCenterInside(o, j) ==
    isPointInRegion(CenterAttempt(getRegionBounds(o.region), createRng(o.seed), j)[1],
                    CenterAttempt(getRegionBounds(o.region), createRng(o.seed), j)[2],
                    o.region)

\* C16: in clustered, a cluster is skipped (no member is drawn, it
\* contributes no point) exactly when none of the candidate centers it
\* drew, 100 at most, lies inside the region
C16_SkippedExactlyWhenNoCenterInside ==
    \A i \in 1..Len(calls) :
        (IsAlgorithmCall(calls[i]) /\ calls[i].op = "clustered") =>
            ((/\ FirstCluster(calls[i].options).pts = <<>>
              /\ FirstCluster(calls[i].options).t = FirstCenter(calls[i].options).t)
             <=> \A j \in 1..FirstCenter(calls[i].options).attempts :
                    ~FirstCenterInside(calls[i].options, j))

\* the spacing grid works with, and its jitter in thousandths
EffectiveSpacing(o) == GridSpacing(o.region, o.spacing, o.maxPoints)

EffectiveJitter(o) == IF o.jitter = Undefined THEN DefaultJitter ELSE o.jitter

\* the coordinates of the lattice from lo to hi, one every spacing
LatticeCoords(lo, hi, spacing) == {lo + (a * spacing) : a \in 0..((hi - lo) \div spacing)}

\* the lattice points of a call of grid
Lattice(o) ==
    LatticeCoords(getRegionBounds(o.region).minX, getRegionBounds(o.region).maxX,
                  EffectiveSpacing(o))
        \X LatticeCoords(getRegionBounds(o.region).minZ, getRegionBounds(o.region).maxZ,
                         EffectiveSpacing(o))

\* C17: every point returned by grid is within (effective spacing x jitter
\* / 2) of a lattice point on each axis, and with jitter 0.2 within
\* spacing x 0.2 of its nearest lattice point
C17_JitterBound ==
    \A i \in 1..Len(calls) :
        (IsAlgorithmCall(calls[i]) /\ calls[i].op = "grid") =>
            \A k \in 1..Len(calls[i].out.pts) :
                \E l \in Lattice(calls[i].options) :
                    /\ 2000 * Abs(calls[i].out.pts[k][1] - l[1])
                          <= EffectiveSpacing(calls[i].options) * EffectiveJitter(calls[i].options)
                    /\ 2000 * Abs(calls[i].out.pts[k][2] - l[2])
                          <= EffectiveSpacing(calls[i].options) * EffectiveJitter(calls[i].options)
                    /\ EffectiveJitter(calls[i].options) = 200 =>
                          25 * DistSq(calls[i].out.pts[k], <<l[1], l[2]>>)
                              <= EffectiveSpacing(calls[i].options) * EffectiveSpacing(calls[i].options)

\* grid with spacing 20 and jitter 0.2 returned a point that lies off the
\* lattice on both axes
C17_Witness ==
    \E i \in 1..Len(calls) :
        /\ IsAlgorithmCall(calls[i]) /\ calls[i].op = "grid"
        /\ calls[i].options.spacing = 20
        /\ EffectiveJitter(calls[i].options) = 200
        /\ \E k \in 1..Len(calls[i].out.pts) :
              \A l \in Lattice(calls[i].options) :
                  calls[i].out.pts[k][1] # l[1] /\ calls[i].out.pts[k][2] # l[2]

\* C18: scatter and scatterLayers leave their inputs unchanged: while
\* scatterLayers runs and when it returns the caller's list is the list the
\* caller passed, layer for layer and in its order (the sorted list is a
\* copy); the layer of scatter and the region are as passed; and a later
\* call with the same layers draws the same candidates
C18_InputsUnchanged ==
    /\ pc = "loop" =>
          /\ layers \in LayerLists
          /\ sorted = SortByPriority(layers)
    /\ \E o \in Setups : world = [region |-> o.region, terrain |-> o.terrain]
    /\ \A i \in 1..Len(calls) :
          /\ calls[i].op = "scatterLayers" => calls[i].layers \in LayerLists
          /\ calls[i].op = "scatter" => calls[i].layers[1] \in SingleLayers
          /\ \A id \in DOMAIN calls[i].out :
                calls[i].out[id].manifest.region = world.region
          /\ \A j \in 1..Len(calls) :
                (calls[i].op = calls[j].op /\ calls[i].layers = calls[j].layers)
                    => calls[i].candidates = calls[j].candidates

\* scatterLayers ran twice on the same list, which its sort would reorder
C18_Witness ==
    /\ Len(calls) = 2
    /\ calls[1].op = "scatterLayers"
    /\ calls[2].op = "scatterLayers"
    /\ calls[1].layers = calls[2].layers
    /\ SortByPriority(calls[1].layers) # calls[1].layers

\* C19: in one scatterLayers call, any two layers with distinct ids are
\* seeded with distinct per-layer seeds, the generator states
\* createRng(seed + hashString(layer.id))
C19_DistinctIdsDistinctSeeds ==
    \A a \in 1..Len(sorted) : \A b \in 1..Len(sorted) :
        sorted[a].id # sorted[b].id =>
            createRng(BaseSeed(seed, 0) + hashString(sorted[a].id))
                # createRng(BaseSeed(seed, 0) + hashString(sorted[b].id))

\* no placed point of a named layer is closer to p than minDistance
FarFromPlaced(p, a) ==
    \A n \in 1..Len(a.excludedLayerIds) :
        a.excludedLayerIds[n] \in DOMAIN a.placed =>
            \A q \in 1..Len(a.placed[a.excludedLayerIds[n]]) :
                DistSq(p, a.placed[a.excludedLayerIds[n]][q]) >= a.minDistance * a.minDistance

\* C20: applyCrossLayerExclusion returns exactly the candidates that have no
\* placed point of any named layer at squared distance < minDistance squared,
\* in candidate order, and the candidates unchanged when no named layer has
\* placed points
C20_SpatialHashIsBruteForce ==
    \A i \in 1..Len(calls) :
        calls[i].op = "applyCrossLayerExclusion" =>
            /\ IsSelection(calls[i].out, calls[i].args.candidates,
                           {n \in 1..Len(calls[i].args.candidates) :
                               FarFromPlaced(calls[i].args.candidates[n], calls[i].args)})
            /\ (\A n \in 1..Len(calls[i].args.excludedLayerIds) :
                    calls[i].args.excludedLayerIds[n] \notin DOMAIN calls[i].args.placed)
                  => calls[i].out = calls[i].args.candidates

\* a candidate was rejected for a placed point that lies in another cell of
\* the hash, and another candidate was kept
C20_Witness ==
    \E i \in 1..Len(calls) :
        /\ calls[i].op = "applyCrossLayerExclusion"
        /\ calls[i].out # <<>>
        /\ \E n \in 1..Len(calls[i].args.candidates) :
              /\ ~FarFromPlaced(calls[i].args.candidates[n], calls[i].args)
              /\ \A k \in 1..Len(calls[i].args.excludedLayerIds) :
                    calls[i].args.excludedLayerIds[k] \in DOMAIN calls[i].args.placed =>
                        \A q \in 1..Len(calls[i].args.placed[calls[i].args.excludedLayerIds[k]]) :
                            (DistSq(calls[i].args.candidates[n],
                                    calls[i].args.placed[calls[i].args.excludedLayerIds[k]][q])
                                < calls[i].args.minDistance * calls[i].args.minDistance)
                            => CellKey(calls[i].args.candidates[n], calls[i].args.minDistance)
                                 # CellKey(calls[i].args.placed[calls[i].args.excludedLayerIds[k]][q],
                                           calls[i].args.minDistance)

\* C21: during one scatterLayers call every iteration writes one entry of
\* the placed-points map, that of its layer, which had none, with the
\* points of the layer that survived the cross-layer exclusion and the
\* constraints; the entries written before stay as they are
C21_PlacedWrittenOnce ==
    [][(pc = "loop" /\ pc' = "loop") =>
          /\ sorted[idx].id \notin DOMAIN placedPointsByLayer
          /\ DOMAIN placedPointsByLayer' = DOMAIN placedPointsByLayer \cup {sorted[idx].id}
          /\ Cardinality(DOMAIN placedPointsByLayer') = idx
          /\ \A id \in DOMAIN placedPointsByLayer :
                placedPointsByLayer'[id] = placedPointsByLayer[id]
          /\ placedPointsByLayer'[sorted[idx].id]
                = applyConstraints(
                      excludePlaced(sorted[idx],
                                    [pts |-> candidatesByLayer'[sorted[idx].id]],
                                    placedPointsByLayer),
                      sorted[idx].constraints, world.terrain)]_vars

\* two layers have written their entries, one of them with fewer points
\* than its candidates, and a third layer is still to come
C21_Witness ==
    /\ pc = "loop"
    /\ idx = 3
    /\ Len(sorted) = 3
    /\ \E id \in DOMAIN placedPointsByLayer :
          /\ placedPointsByLayer[id] # <<>>
          /\ Len(placedPointsByLayer[id]) < Len(candidatesByLayer[id])

\* weight[0] + ... + weight[i] of the pool (i counted from 1)
PrefixWeight(types, i) == SumWeights(SubSeq(types, 1, i), 1)

\* the indices i of the pool of the call with roll <= weight[0] + ... +
\* weight[i], for roll = r * (the sum of the weights), r the next draw
Qualifying(call) ==
    {i \in 1..Len(call.types) :
        RollLeq(RngNext(createRng(call.seed))[2], SumWeights(call.types, 1),
                PrefixWeight(call.types, i))}

\* C22: selectInstanceType returns the pool entry of least index i with
\* roll <= weight[0] + ... + weight[i], the last entry when no index
\* qualifies, and always an entry of the pool
C22_LeastQualifyingEntry ==
    \A n \in 1..Len(calls) :
        calls[n].op = "selectInstanceType" =>
            /\ \E i \in 1..Len(calls[n].types) : calls[n].out[2] = calls[n].types[i]
            /\ Qualifying(calls[n]) = {} =>
                  calls[n].out[2] = calls[n].types[Len(calls[n].types)]
            /\ \A i \in Qualifying(calls[n]) :
                  (\A j \in Qualifying(calls[n]) : i <= j) =>
                      calls[n].out[2] = calls[n].types[i]

\* a pool of four entries gave its second one, the first that qualified
C22_Witness ==
    \E n \in 1..Len(calls) :
        /\ calls[n].op = "selectInstanceType"
        /\ Len(calls[n].types) = 4
        /\ calls[n].out[2] = calls[n].types[2]
        /\ Qualifying(calls[n]) = {2, 3, 4}

\* a call of grid with maxPoints, on a region of a declared variant
IsCappedGridCall(call) ==
    /\ IsAlgorithmCall(call)
    /\ call.op = "grid"
    /\ call.options.maxPoints # Undefined

\* the whole part of sqrt(area(region) / maxPoints) of the call
CountSpacing(o) ==
    CHOOSE r \in 0..getRegionArea(o.region) :
        /\ r * r <= getRegionArea(o.region) \div o.maxPoints
        /\ (r + 1) * (r + 1) > getRegionArea(o.region) \div o.maxPoints

\* the lattice of the bounds of the region with the spacing given
LatticeOf(o, spacing) ==
    LatticeCoords(getRegionBounds(o.region).minX, getRegionBounds(o.region).maxX, spacing)
        \X LatticeCoords(getRegionBounds(o.region).minZ, getRegionBounds(o.region).maxZ,
                         spacing)

\* C23: when grid is given maxPoints, the lattice it uses (seen without
\* jitter) has the caller's spacing when the count-derived spacing is not
\* larger, and the count-derived spacing otherwise; a lattice that fits
\* under the cap is returned whole
C23_SpacingIsTheLarger ==
    \A i \in 1..Len(calls) :
        (IsCappedGridCall(calls[i]) /\ calls[i].options.jitter = 0) =>
            /\ \A k \in 1..Len(calls[i].out.pts) :
                  <<calls[i].out.pts[k][1], calls[i].out.pts[k][2]>>
                      \in LatticeOf(calls[i].options,
                                    IF CountSpacing(calls[i].options) > calls[i].options.spacing
                                    THEN CountSpacing(calls[i].options)
                                    ELSE calls[i].options.spacing)
            /\ Len(calls[i].out.pts) < calls[i].options.maxPoints =>
                  \A l \in LatticeOf(calls[i].options,
                                     IF CountSpacing(calls[i].options) > calls[i].options.spacing
                                     THEN CountSpacing(calls[i].options)
                                     ELSE calls[i].options.spacing) :
                      isPointInRegion(l[1], l[2], calls[i].options.region) =>
                          \E k \in 1..Len(calls[i].out.pts) :
                              calls[i].out.pts[k] = <<l[1], l[2]>>

\* grid raised the spacing 20 to 40 for maxPoints 4 and returned the node
\* in the middle of the box, which a larger spacing would not have
C23_Witness ==
    \E i \in 1..Len(calls) :
        /\ IsCappedGridCall(calls[i]) /\ calls[i].options.jitter = 0
        /\ calls[i].options.region = WideBox
        /\ calls[i].options.maxPoints = 4
        /\ \E k \in 1..Len(calls[i].out.pts) : calls[i].out.pts[k] = <<0, 0>>

\* the in-region jittered lattice points grid generated, before the cap
Generated(o) ==
    GridAll(getRegionBounds(o.region), o.region, EffectiveSpacing(o),
            EffectiveJitter(o), createRng(o.seed)).pts

\* how many entries of the list are the point p
Occurrences(list, p) == Cardinality({k \in 1..Len(list) : list[k] = p})

\* C24: when grid generated more than maxPoints points it returns exactly
\* maxPoints entries, each of them a generated point, none more often than
\* it was generated; otherwise it returns the generated points
C24_CapKeepsGeneratedPoints ==
    \A i \in 1..Len(calls) :
        IsCappedGridCall(calls[i]) =>
            IF Len(Generated(calls[i].options)) > calls[i].options.maxPoints
            THEN /\ Len(calls[i].out.pts) = calls[i].options.maxPoints
                 /\ \A k \in 1..Len(calls[i].out.pts) :
                       /\ Occurrences(Generated(calls[i].options), calls[i].out.pts[k]) > 0
                       /\ Occurrences(calls[i].out.pts, calls[i].out.pts[k])
                             <= Occurrences(Generated(calls[i].options), calls[i].out.pts[k])
            ELSE calls[i].out.pts = Generated(calls[i].options)

\* grid generated more points than the cap and returned other points than
\* the first generated ones
C24_Witness ==
    \E i \in 1..Len(calls) :
        /\ IsCappedGridCall(calls[i])
        /\ Len(Generated(calls[i].options)) > calls[i].options.maxPoints + 1
        /\ calls[i].out.pts
              # SubSeq(Generated(calls[i].options), 1, calls[i].options.maxPoints)

\* a call of densityFunction with a density_falloff constraint
IsFalloffCall(call) ==
    call.op = "densityFunction" /\ FindFalloff(call.options.constraints, 1) # 0

\* the density_falloff constraint of the call
FalloffOf(call) == call.options.constraints[FindFalloff(call.options.constraints, 1)]

\* the oversampled candidates of the call: poissonDisk with maxPoints =
\* 3 x targetCount, and the state it leaves the generator in
Oversampled(o) ==
    poissonDisk(o.region,
                IF o.minDistance = Undefined THEN DefaultMinDistance ELSE o.minDistance,
                3 * o.targetCount, createRng(o.seed))

\* the points `out` are thinned from the candidates `ov` by the falloff f:
\* each lies within the radius, was accepted by the draw of its own
\* candidate, and the list keeps the candidates' order
ThinnedFrom(out, ov, f) ==
    /\ \A k \in 1..Len(out) :
          /\ DistSq(out[k], f.falloffCenter) < f.falloffRadius * f.falloffRadius
          /\ \E n \in 1..Len(ov.pts) :
                /\ ov.pts[n] = out[k]
                /\ FalloffAccepts(RngNext(RngSkip(ov.t, n - 1))[2], out[k][1], out[k][2], f)
    /\ \E kept \in SUBSET (1..Len(ov.pts)) : IsSelection(out, ov.pts, kept)

ThinsBothWays(out, ov, f) ==
    /\ out # <<>>
    /\ \E n \in 1..Len(ov.pts) :
          DistSq(ov.pts[n], f.falloffCenter) >= f.falloffRadius * f.falloffRadius
    /\ \E n \in 1..Len(ov.pts) :
          /\ DistSq(ov.pts[n], f.falloffCenter) < f.falloffRadius * f.falloffRadius
          /\ \A k \in 1..Len(out) : out[k] # ov.pts[n]

AtNode(call, i, j) ==
    /\ call.x - call.terrain.offsetX
          = i * (call.terrain.regionSize \div call.terrain.resolution)
    /\ call.z - call.terrain.offsetZ
          = j * (call.terrain.regionSize \div call.terrain.resolution)

\* C26: for every world position, inside or outside the grid, getHeight of
\* a heightmap of resolution >= 2 reads its four corner samples at indices
\* within [0, resolution * resolution - 1], and at a position that coincides
\* with a grid node it returns exactly the sample stored for that node
C26_ReadsInRangeAndNodesExact ==
    \A n \in 1..Len(calls) :
        calls[n].op = "getHeight" =>
            /\ \A k \in 1..4 :
                  calls[n].reads[k] \in
                      0..((calls[n].terrain.resolution * calls[n].terrain.resolution) - 1)
            /\ \A i, j \in 0..(calls[n].terrain.resolution - 1) :
                  AtNode(calls[n], i, j) =>
                      calls[n].out
                          = calls[n].terrain.data[(j * calls[n].terrain.resolution) + i + 1]

\* a position outside the grid on both axes was sampled and read the
\* corners of the nearest cell, the last row of data among them
C26_Witness ==
    \E n \in 1..Len(calls) :
        /\ calls[n].op = "getHeight"
        /\ calls[n].x < calls[n].terrain.offsetX
        /\ calls[n].z > calls[n].terrain.offsetZ + calls[n].terrain.regionSize
        /\ calls[n].reads[3] = (calls[n].terrain.resolution - 1) * calls[n].terrain.resolution

\* speciesId ?? generator ?? 'unknown' of an instance type
SpeciesOf(type) ==
    IF Has(type, "speciesId") THEN type.speciesId
    ELSE IF Has(type, "generator") THEN type.generator ELSE "unknown"

\* the bounds of the scale of an instance type, in thousandths
ScaleMinOf(type) == IF Has(type, "scaleMin") THEN type.scaleMin ELSE DefaultScaleMin

ScaleMaxOf(type) == IF Has(type, "scaleMax") THEN type.scaleMax ELSE DefaultScaleMax

\* the instance is placed at p on the terrain as the type prescribes, but
\* for the range of its scale
PlacedAs(inst, p, type, tr) ==
    /\ inst.speciesId = SpeciesOf(type)
    /\ inst.position = [x |-> p[1],
                        y |-> getHeight(tr, p[1], p[2])
                              + (IF Has(type, "yOffset") THEN type.yOffset ELSE 0),
                        z |-> p[2]]
    /\ inst.rotation.x = 0 /\ inst.rotation.z = 0
    /\ (Has(type, "rotationRandomY") /\ type.rotationRandomY = FALSE) => inst.rotation.y = 0
    /\ inst.scale.x = inst.scale.y /\ inst.scale.y = inst.scale.z

\* the scale lies within [scaleMin, scaleMax] of the type
ScaleWithin(inst, type) ==
    ScaleMinOf(type) <= inst.scale.x /\ inst.scale.x <= ScaleMaxOf(type)

\* C27: buildInstances produces exactly one PlacedInstance per surviving
\* point, in the points' order, with position (x, getHeight(x, z) + yOffset,
\* z), rotation (0, yaw, 0) where yaw = 0 when rotationRandomY is false, and
\* a scale equal on all three axes that lies within [scaleMin, scaleMax] of
\* the selected instance type (defaults 0.8 and 1.2)
C27_OneInstancePerPoint ==
    \A n \in 1..Len(calls) :
        calls[n].op = "buildInstances" =>
            /\ Len(calls[n].out) = Len(calls[n].points)
            /\ \A k \in 1..Len(calls[n].out) :
                  \E j \in 1..Len(calls[n].types) :
                      /\ PlacedAs(calls[n].out[k], calls[n].points[k], calls[n].types[j],
                                  calls[n].terrain)
                      /\ ScaleWithin(calls[n].out[k], calls[n].types[j])

\* scatterLayers([L], seed S) has returned and scatter(L, seed s) after it
SoloThenScatter ==
    /\ first # <<>>
    /\ second # <<>>
    /\ first[1].op = "scatterLayers"
    /\ second[1].op = "scatter"
    /\ second[1].layers = first[1].layers

\* what scatterLayers returned for its only layer
SoloResult == first[1].out[first[1].layers[1].id]

\* C28: for an integer seed S, scatterLayers([L], seed S) yields for L the
\* same instances and manifest id as scatter(L, seed S + hashString(L.id)),
\* and on the layers of the model it differs from scatter(L, seed S)
C28_SoloIsScatterOfHashedSeed ==
    SoloThenScatter =>
        /\ second[1].seed = seed + hashString(first[1].layers[1].id) =>
              /\ second[1].out.instances = SoloResult.instances
              /\ second[1].out.manifest.id = SoloResult.manifest.id
        /\ second[1].seed = seed =>
              \/ second[1].out.instances # SoloResult.instances
              \/ second[1].out.manifest.id # SoloResult.manifest.id

\* a layer that names a layer to exclude gave the same non-empty instances
\* on both paths
C28_Witness ==
    /\ SoloThenScatter
    /\ second[1].seed = seed + hashString(first[1].layers[1].id)
    /\ Has(first[1].layers[1], "excludesLayers")
    /\ first[1].layers[1].excludesLayers # <<>>
    /\ SoloResult.instances # <<>>
    /\ second[1].out.instances = SoloResult.instances

\* the placed points of the layers processed before the k-th
PlacedBefore(k) ==
    [id \in {sorted[j].id : j \in 1..(k - 1)} |-> placedPointsByLayer[id]]

\* the base seeds that give the result stored for the k-th layer processed
DrawsOf(k) ==
    {r \in RandomSeeds :
        results[sorted[k].id]
            = layerBody(sorted[k], world.terrain, world.region,
                        createRng(r + hashString(sorted[k].id)), PlacedBefore(k), now).result}

\* C29: when the caller supplies no seed, scatterLayers draws a random base
\* seed for each layer inside the loop, so every layer's result is the one
\* of a draw of its own, and no manifest has a field that records the seed
C29_SeedDrawnPerLayerUnrecorded ==
    (pc = "loop" /\ seed = Undefined) =>
        \A k \in 1..(idx - 1) :
            /\ DrawsOf(k) # {}
            /\ DOMAIN results[sorted[k].id].manifest
                  = {"id", "layerId", "instances", "algorithm", "region", "createdAt"}

\* two layers of one call were scattered from different base seeds
C29_Witness ==
    /\ pc = "loop"
    /\ seed = Undefined
    /\ \E j, k \in 1..(idx - 1) : DrawsOf(j) = {0} /\ DrawsOf(k) = {77777}

\* the step is the call `op` on the key `key`
PoolCall(op, key) == returned'.op = op /\ returned'.key = key

\* the first n matrices of the pool of key are kept by the step
KeepsInstances(key, n) ==
    \A i \in 1..n : pools'[key].mesh.instanceMatrix[i] = pools[key].mesh.instanceMatrix[i]

\* what a step does to the pool of a key it calls
PoolStep(key) ==
    /\ (PoolCall("register", key) /\ key \in DOMAIN pools) => pools' = pools
    /\ (PoolCall("add", key) /\ key \notin DOMAIN pools) =>
          returned'.out = -1 /\ pools' = pools
    /\ (PoolCall("add", key) /\ key \in DOMAIN pools) =>
          /\ returned'.out = pools[key].count
          /\ pools'[key].count = pools[key].count + 1
          /\ pools'[key].capacity = IF pools[key].count = pools[key].capacity
                                    THEN 2 * pools[key].capacity ELSE pools[key].capacity
          /\ KeepsInstances(key, pools[key].count)
          /\ pools'[key].mesh.instanceMatrix[pools[key].count + 1] = returned'.matrix
    /\ (PoolCall("clear", key) /\ key \in DOMAIN pools) =>
          pools'[key].count = 0 /\ pools'[key].capacity = pools[key].capacity

\* C30: after any sequence of register, add and clear on keys registered
\* with initialCapacity >= 1, count <= capacity holds; each add returns the
\* previous count and doubles the capacity when the pool was full, keeping
\* the earlier instances; a second register of a key changes nothing; add
\* on an unregistered key returns -1 and changes nothing; clear resets the
\* count to 0
C30_PoolSteps ==
    [][/\ \A key \in PoolKeys : PoolStep(key)
       /\ \A key \in DOMAIN pools' :
             /\ pools'[key].count <= pools'[key].capacity
             /\ pools'[key].mesh.count = pools'[key].count
             /\ Len(pools'[key].mesh.instanceMatrix) = pools'[key].capacity]_vars

\* a pool registered with capacity 1 has doubled twice and holds its three
\* instances in the order of the adds, the last add returning 2
C30_Witness ==
    /\ "a" \in DOMAIN pools
    /\ pools["a"].capacity = 4
    /\ pools["a"].count = 3
    /\ pools["a"].mesh.instanceMatrix = <<1, 2, 1, 0>>
    /\ returned = [op |-> "add", key |-> "a", matrix |-> 1, out |-> 2]

====
